---- MODULE Spec2Model ----
(***************************************************************************)
(* A model of tetherai: the BudgetTracker ledger (budget.py), the call     *)
(* interception pipeline (interceptor.py), the trace collector (trace.py), *)
(* the pricing registry (pricing.py) and the protected-run orchestration   *)
(* (circuit_breaker.py).                                                   *)
(*                                                                         *)
(* Money is counted in whole nano-dollars, so that the per-1000-token      *)
(* prices of pricing.py times a token count, divided by 1000, is an exact  *)
(* integer; floating rounding is outside the model.                        *)
(***************************************************************************)
EXTENDS Integers, Sequences, FiniteSets, TLC

\* ------------------------------------------------------------------ bounds
NThreads == 2
CallsPerThread == 2
MaxOps == 2
MaxCost == 2
MaxRuns == 2
MaxCalls == 1
MaxReaderOps == 3
MaxCollectorCalls == 5
MaxInFlight == 1
MaxExcess == 1
MaxPricingCalls == 3
MaxEstimateTokens == 2

Threads == 1..NThreads

\* ------------------------------------------------------- program constants
\* max_turns: int | None = None; None is written -1
NoLimit == -1
\* threading.Lock() not held by any thread
Free == 0

RunId == "run-1"

VARIABLES
    max_usd,        \* BudgetTracker.max_usd
    max_turns,      \* BudgetTracker.max_turns (NoLimit for None)
    spent_usd,      \* BudgetTracker._spent_usd
    turn_count,     \* BudgetTracker._turn_count
    calls,          \* BudgetTracker._calls
    lock,           \* BudgetTracker._lock: Free or the thread holding it
    tk,             \* per thread: the frame of the tracker method it is in
    ops,            \* number of operations started so far (bounded by the guards)
    burst,          \* the burst workload: its cost per call, and calls made per thread
    ic,             \* per thread: the intercepted call it is in (LLMInterceptor locals)
    spans,          \* Trace.spans of the run's trace
    current_trace,  \* TraceCollector._current_trace: "active" or "none"
    present,        \* the hook points the installed libraries have
    hook,           \* per hook point: the callable it holds now
    interceptor,    \* per thread: the LLMInterceptor of its run (_active, _originals)
    run,            \* per thread: the protected run it is in (_run_with_budget locals)
    runs_started,   \* number of protected runs started so far (bounded by the guards)
    collector,      \* a TraceCollector used on its own, and the Trace objects it made
    registry        \* a PricingRegistry used on its own (_custom_models, the last call)

trackerVars == <<max_usd, max_turns, spent_usd, turn_count, calls, lock>>
\* What no method of the tracker touches.
traceVars == <<spans, current_trace>>
\* The process-wide hook points and the protected runs.
orchVars == <<present, hook, interceptor, run, runs_started>>
outside == <<ops, burst, ic, traceVars, orchVars, collector, registry>>
vars == <<max_usd, max_turns, spent_usd, turn_count, calls, lock, tk, ops, burst, ic,
          spans, current_trace, present, hook, interceptor, run, runs_started,
          collector, registry>>

\* ------------------------------------------------------------- exceptions
NoError == [type |-> "none"]

\* exceptions.BudgetExceededError(message, run_id, budget_usd, spent_usd, last_model)
BudgetExceededError(run_id, budget_usd, spent, last_model) ==
    [type |-> "BudgetExceededError", run_id |-> run_id, budget_usd |-> budget_usd,
     spent_usd |-> spent, last_model |-> last_model]

\* exceptions.TurnLimitError(message, run_id, max_turns, current_turn)
TurnLimitError(run_id, mt, current_turn) ==
    [type |-> "TurnLimitError", run_id |-> run_id, max_turns |-> mt,
     current_turn |-> current_turn]

ValueError == [type |-> "ValueError"]

\* ---------------------------------------------------------- BudgetTracker
CallRecord(it, ot, model, cost, dur) ==
    [input_tokens |-> it, output_tokens |-> ot, model |-> model,
     cost_usd |-> cost, duration_ms |-> dur]

\* The frame of a thread that is in no tracker method.
\* What a tracker method hands back: None, or a number, a bool, a summary dict.
NoValue == [none |-> TRUE]
Value(v) == [value |-> v]

IdleFrame ==
    [pc |-> "idle", fn |-> "none", est |-> 0, model |-> "", it |-> 0, ot |-> 0,
     cost |-> 0, dur |-> 0, ld_spent |-> 0, ld_turn |-> 0, projected |-> 0,
     exc |-> NoError, ret |-> NoValue]

PreCheckFrame(est, model) ==
    [IdleFrame EXCEPT !.pc = "pre_check", !.fn = "pre_check", !.est = est,
                      !.model = model]

RecordCallFrame(it, ot, model, cost, dur) ==
    [IdleFrame EXCEPT !.pc = "record_call", !.fn = "record_call", !.it = it,
                      !.ot = ot, !.model = model, !.cost = cost, !.dur = dur]

\* The frame of a thread whose tracker method has returned or raised exc: the
\* method's locals are gone.
ReturnedFrame(fn, exc) ==
    [IdleFrame EXCEPT !.pc = "returned", !.fn = fn, !.exc = exc]

\* BudgetTracker.__init__
TrackerInit(mu, mt) ==
    /\ max_usd = mu
    /\ max_turns = mt
    /\ spent_usd = 0
    /\ turn_count = 0
    /\ calls = <<>>
    /\ lock = Free

\* A mutation of LockAvailable: a tracker whose methods do not wait for the lock.
LockAvailable_NoLock == TRUE

\* `with self._lock:` blocks until no thread holds the lock.
LockAvailable == lock = Free

\* A mutation of Exceeds: the boundary estimate is admitted.
Exceeds_Strict(projected, mu) == projected > mu

\* pre_check: `if projected >= self.max_usd`
Exceeds(projected, mu) == projected >= mu

\* A mutation of TurnLimitReached: the limit is hit one commit late.
TurnLimitReached_Late(mt, tc) == mt # NoLimit /\ tc > mt

\* record_call: `if self.max_turns is not None and self._turn_count >= self.max_turns`
TurnLimitReached(mt, tc) == mt # NoLimit /\ tc >= mt

\* A mutation of Clamp: every commit leaves spent_usd at the ceiling.
Clamp_ToCeiling(spent, mu) == mu

\* A mutation of Clamp: the overshoot is kept.
Clamp_None(spent, mu) == spent

\* record_call: `if self._spent_usd > self.max_usd: self._spent_usd = self.max_usd`
Clamp(spent, mu) == IF spent > mu THEN mu ELSE spent

\* remaining_usd property
remaining_usd == IF max_usd - spent_usd > 0 THEN max_usd - spent_usd ELSE 0

\* A mutation of is_exceeded: a run exactly at its ceiling is not exceeded.
is_exceeded_Strict == spent_usd > max_usd

\* is_exceeded property
is_exceeded == spent_usd >= max_usd

\* get_summary: the dict built inside `with self._lock:`
get_summary ==
    [run_id |-> RunId, budget_usd |-> max_usd, spent_usd |-> spent_usd,
     remaining_usd |-> IF max_usd - spent_usd > 0 THEN max_usd - spent_usd ELSE 0,
     turn_count |-> turn_count, calls |-> calls]

\* The four lock-guarded properties and get_summary.
Readers == {"spent_usd", "remaining_usd", "turn_count", "is_exceeded", "get_summary"}

\* What the body of a reader's with block evaluates.
ReadValue(fn) ==
    CASE fn = "spent_usd" -> Value(spent_usd)
      [] fn = "remaining_usd" -> Value(remaining_usd)
      [] fn = "turn_count" -> Value(turn_count)
      [] fn = "is_exceeded" -> Value(is_exceeded)
      [] fn = "get_summary" -> Value(get_summary)

\* A reader: entering `with self._lock:`
ReadAcquire(t) ==
    /\ tk[t].pc = "read"
    /\ LockAvailable
    /\ lock' = t
    /\ tk' = [tk EXCEPT ![t].pc = "read_locked"]
    /\ UNCHANGED <<max_usd, max_turns, spent_usd, turn_count, calls, outside>>

\* A reader: the return expression, evaluated inside the with block.
ReadEvaluate(t) ==
    /\ tk[t].pc = "read_locked"
    /\ tk' = [tk EXCEPT ![t].pc = "exit", ![t].ret = ReadValue(tk[t].fn)]
    /\ UNCHANGED <<trackerVars, outside>>

\* pre_check: entering `with self._lock:`
PreCheckAcquire(t) ==
    /\ tk[t].pc = "pre_check"
    /\ LockAvailable
    /\ lock' = t
    /\ tk' = [tk EXCEPT ![t].pc = "pre_check_locked"]
    /\ UNCHANGED <<max_usd, max_turns, spent_usd, turn_count, calls, outside>>

\* A mutation of PreCheckDecide: a pre-check that passes reserves its estimate.
PreCheckDecide_Reserves(t) ==
    /\ tk[t].pc = "pre_check_locked"
    /\ LET projected == spent_usd + tk[t].est
       IN /\ tk' = [tk EXCEPT ![t].pc = "exit",
                              ![t].projected = projected,
                              ![t].exc = IF Exceeds(projected, max_usd)
                                         THEN BudgetExceededError(RunId, max_usd,
                                                                  projected, tk[t].model)
                                         ELSE NoError]
          /\ spent_usd' = IF Exceeds(projected, max_usd) THEN spent_usd ELSE projected
    /\ UNCHANGED <<max_usd, max_turns, turn_count, calls, lock, outside>>

\* pre_check: the body of the with block; the raise happens inside it.
PreCheckDecide(t) ==
    /\ tk[t].pc = "pre_check_locked"
    /\ LET projected == spent_usd + tk[t].est
       IN tk' = [tk EXCEPT ![t].pc = "exit",
                           ![t].projected = projected,
                           ![t].exc = IF Exceeds(projected, max_usd)
                                      THEN BudgetExceededError(RunId, max_usd, projected,
                                                               tk[t].model)
                                      ELSE NoError]
    /\ UNCHANGED <<trackerVars, outside>>

\* A mutation of RecordCallEnter: the cost is checked only after the turn limit.
RecordCallEnter_Unchecked(t) ==
    /\ tk[t].pc = "record_call"
    /\ tk' = IF tk[t].cost < 0 /\ ~TurnLimitReached(max_turns, turn_count)
             THEN [tk EXCEPT ![t] = ReturnedFrame("record_call", ValueError)]
             ELSE [tk EXCEPT ![t].pc = "rc_acquire"]
    /\ UNCHANGED <<trackerVars, outside>>

\* record_call: the argument check in front of the lock.
RecordCallEnter(t) ==
    /\ tk[t].pc = "record_call"
    /\ tk' = IF tk[t].cost < 0
             THEN [tk EXCEPT ![t] = ReturnedFrame("record_call", ValueError)]
             ELSE [tk EXCEPT ![t].pc = "rc_acquire"]
    /\ UNCHANGED <<trackerVars, outside>>

\* record_call: entering `with self._lock:`
RecordCallAcquire(t) ==
    /\ tk[t].pc = "rc_acquire"
    /\ LockAvailable
    /\ lock' = t
    /\ tk' = [tk EXCEPT ![t].pc = "rc_locked"]
    /\ UNCHANGED <<max_usd, max_turns, spent_usd, turn_count, calls, outside>>

\* A mutation of RecordCallTurnCheck: a refused commit still counts as a turn.
RecordCallTurnCheck_CountsRefused(t) ==
    /\ tk[t].pc = "rc_locked"
    /\ IF TurnLimitReached(max_turns, turn_count)
       THEN /\ tk' = [tk EXCEPT ![t].pc = "exit",
                                ![t].exc = TurnLimitError(RunId, max_turns, turn_count + 1)]
            /\ turn_count' = turn_count + 1
       ELSE /\ tk' = [tk EXCEPT ![t].pc = "rc_load_spent"]
            /\ turn_count' = turn_count
    /\ UNCHANGED <<max_usd, max_turns, spent_usd, calls, lock, outside>>

\* record_call: the turn-limit check, raising before anything is changed.
RecordCallTurnCheck(t) ==
    /\ tk[t].pc = "rc_locked"
    /\ tk' = IF TurnLimitReached(max_turns, turn_count)
             THEN [tk EXCEPT ![t].pc = "exit",
                             ![t].exc = TurnLimitError(RunId, max_turns, turn_count + 1)]
             ELSE [tk EXCEPT ![t].pc = "rc_load_spent"]
    /\ UNCHANGED <<trackerVars, outside>>

\* record_call: `self._spent_usd += cost_usd`, the read
RecordCallLoadSpent(t) ==
    /\ tk[t].pc = "rc_load_spent"
    /\ tk' = [tk EXCEPT ![t].pc = "rc_store_spent", ![t].ld_spent = spent_usd]
    /\ UNCHANGED <<trackerVars, outside>>

\* record_call: `self._spent_usd += cost_usd`, the write
RecordCallStoreSpent(t) ==
    /\ tk[t].pc = "rc_store_spent"
    /\ spent_usd' = tk[t].ld_spent + tk[t].cost
    /\ tk' = [tk EXCEPT ![t].pc = "rc_load_turn"]
    /\ UNCHANGED <<max_usd, max_turns, turn_count, calls, lock, outside>>

\* record_call: `self._turn_count += 1`, the read
RecordCallLoadTurn(t) ==
    /\ tk[t].pc = "rc_load_turn"
    /\ tk' = [tk EXCEPT ![t].pc = "rc_store_turn", ![t].ld_turn = turn_count]
    /\ UNCHANGED <<trackerVars, outside>>

\* record_call: `self._turn_count += 1`, the write
RecordCallStoreTurn(t) ==
    /\ tk[t].pc = "rc_store_turn"
    /\ turn_count' = tk[t].ld_turn + 1
    /\ tk' = [tk EXCEPT ![t].pc = "rc_clamp"]
    /\ UNCHANGED <<max_usd, max_turns, spent_usd, calls, lock, outside>>

\* record_call: the clamp to the ceiling
RecordCallClamp(t) ==
    /\ tk[t].pc = "rc_clamp"
    /\ spent_usd' = Clamp(spent_usd, max_usd)
    /\ tk' = [tk EXCEPT ![t].pc = "rc_append"]
    /\ UNCHANGED <<max_usd, max_turns, turn_count, calls, lock, outside>>

\* record_call: `self._calls.append(CallRecord(...))`
RecordCallAppend(t) ==
    /\ tk[t].pc = "rc_append"
    /\ calls' = Append(calls, CallRecord(tk[t].it, tk[t].ot, tk[t].model,
                                         tk[t].cost, tk[t].dur))
    /\ tk' = [tk EXCEPT ![t].pc = "exit"]
    /\ UNCHANGED <<max_usd, max_turns, spent_usd, turn_count, lock, outside>>

\* A mutation of ReleaseLock: a pre-check that passes keeps the lock for the call
\* it admitted.
ReleaseLock_HeldForCall(t) ==
    /\ tk[t].pc = "exit"
    /\ lock' = IF tk[t].fn = "pre_check" /\ tk[t].exc = NoError THEN lock ELSE Free
    /\ tk' = [tk EXCEPT ![t] = [ReturnedFrame(tk[t].fn, tk[t].exc)
                                    EXCEPT !.ret = tk[t].ret]]
    /\ UNCHANGED <<max_usd, max_turns, spent_usd, turn_count, calls, outside>>

\* Leaving `with self._lock:`, by falling off its end or by the raise inside it.
ReleaseLock(t) ==
    /\ tk[t].pc = "exit"
    /\ lock' = Free
    /\ tk' = [tk EXCEPT ![t] = [ReturnedFrame(tk[t].fn, tk[t].exc)
                                    EXCEPT !.ret = tk[t].ret]]
    /\ UNCHANGED <<max_usd, max_turns, spent_usd, turn_count, calls, outside>>

\* One step of thread t inside pre_check.
PreCheckStep(t) ==
    \/ PreCheckAcquire(t)
    \/ PreCheckDecide(t)

\* One step of thread t inside record_call.
RecordCallStep(t) ==
    \/ RecordCallEnter(t)
    \/ RecordCallAcquire(t)
    \/ RecordCallTurnCheck(t)
    \/ RecordCallLoadSpent(t)
    \/ RecordCallStoreSpent(t)
    \/ RecordCallLoadTurn(t)
    \/ RecordCallStoreTurn(t)
    \/ RecordCallClamp(t)
    \/ RecordCallAppend(t)

\* Sum of cost_usd over a list of call records.
RECURSIVE SumCost(_)
SumCost(s) == IF s = <<>> THEN 0 ELSE s[1].cost_usd + SumCost(Tail(s))

Min(a, b) == IF a < b THEN a ELSE b

NoBurst == [cost |-> 0, done |-> [t \in Threads |-> 0]]

\* ------------------------------------------------------------- pricing.py
\* BUNDLED_PRICING, per 1000 tokens, in nano-dollars (the entries the model uses)
BUNDLED_PRICING ==
    ("gpt-4o" :> <<2500000, 10000000>>) @@ ("gpt-4o-mini" :> <<150000, 600000>>)
        @@ ("claude-3-opus-20240229" :> <<15000000, 75000000>>)
        @@ ("claude-3-opus" :> <<15000000, 75000000>>)

\* MODEL_ALIASES (the entries the model uses)
MODEL_ALIASES ==
    ("gpt4o" :> "gpt-4o") @@ ("gpt-4o" :> "gpt-4o") @@ ("gpt4o-mini" :> "gpt-4o-mini")
        @@ ("claude-3-opus" :> "claude-3-opus-20240229")

\* model.lower().strip(), tabulated over the names the model passes in
Normalized(model) ==
    CASE model = " GPT4o " -> "gpt4o"
      [] model = "GPT-4o" -> "gpt-4o"
      [] model = "GPT-4o-mini" -> "gpt-4o-mini"
      [] model = " My-Own-Model " -> "my-own-model"
      [] OTHER -> model

\* A mutation of resolve_model_alias: a name the alias table does not have comes
\* back lowercased and trimmed.
resolve_model_alias_Normalizes(model) ==
    IF Normalized(model) \in DOMAIN MODEL_ALIASES
    THEN MODEL_ALIASES[Normalized(model)]
    ELSE Normalized(model)

\* PricingRegistry.resolve_model_alias
resolve_model_alias(model) ==
    IF Normalized(model) \in DOMAIN MODEL_ALIASES
    THEN MODEL_ALIASES[Normalized(model)]
    ELSE model

\* Whether get_input_cost / get_output_cost find the model (source "bundled", no
\* custom model registered: the registry a protected run builds); otherwise they
\* raise UnknownModelError.
Priced(model) == resolve_model_alias(model) \in DOMAIN BUNDLED_PRICING

\* PricingRegistry.get_input_cost, for a priced model
get_input_cost(model) == BUNDLED_PRICING[resolve_model_alias(model)][1]

\* PricingRegistry.get_output_cost, for a priced model
get_output_cost(model) == BUNDLED_PRICING[resolve_model_alias(model)][2]

\* PricingRegistry.estimate_call_cost, for a priced model
estimate_call_cost(model, input_tokens, output_tokens) ==
    (get_input_cost(model) * input_tokens) \div 1000
        + (get_output_cost(model) * output_tokens) \div 1000

\* exceptions.UnknownModelError(message, model)
UnknownModelError(model) == [type |-> "UnknownModelError", model |-> model]

\* PricingRegistry(source="bundled"): no custom model; `call` is the call last
\* made on it and what it returned or raised, `calls` how many were made.
NewRegistry == [_custom_models |-> <<>>, calls |-> 0, call |-> [op |-> "none"]]

\* PricingRegistry.register_custom_model: self._custom_models[model] = (i, o)
register_custom_model(custom, model, input_cost, output_cost) ==
    [m \in DOMAIN custom \cup {model} |->
        IF m = model THEN <<input_cost, output_cost>> ELSE custom[m]]

\* PricingRegistry.get_input_cost (k = 1) and get_output_cost (k = 2) of a
\* registry of source "bundled" with the custom models `custom`: the alias is
\* resolved, then the overlay is asked, then the bundled table; else the
\* UnknownModelError is raised with the model as it was passed.
PricingRegistry_get_cost(custom, model, k) ==
    LET resolved == resolve_model_alias(model)
    IN IF resolved \in DOMAIN custom THEN Value(custom[resolved][k])
       ELSE IF resolved \in DOMAIN BUNDLED_PRICING
            THEN Value(BUNDLED_PRICING[resolved][k])
       ELSE [kind |-> "raised", exc |-> UnknownModelError(model)]

\* A mutation of PricingRegistry_estimate_call_cost: the unit costs are taken per
\* token, not per 1000 tokens.
PricingRegistry_estimate_call_cost_PerToken(custom, model, input_tokens, output_tokens) ==
    LET i == PricingRegistry_get_cost(custom, model, 1)
        o == PricingRegistry_get_cost(custom, model, 2)
    IN IF "exc" \in DOMAIN i THEN i
       ELSE Value(i.value * input_tokens + o.value * output_tokens)

\* PricingRegistry.estimate_call_cost: the error of the first lookup, or
\* input cost * input_tokens / 1000 + output cost * output_tokens / 1000
PricingRegistry_estimate_call_cost(custom, model, input_tokens, output_tokens) ==
    LET i == PricingRegistry_get_cost(custom, model, 1)
        o == PricingRegistry_get_cost(custom, model, 2)
    IN IF "exc" \in DOMAIN i THEN i
       ELSE Value((i.value * input_tokens) \div 1000
                      + (o.value * output_tokens) \div 1000)

\* --------------------------------------------------------------- trace.py
\* Optional[int] / Optional[float] fields of a Span that hold None
Unset == -1

MAX_PREVIEW_LENGTH == 200

\* Span(run_id, span_type="llm_call", model, input_tokens): status defaults to "ok",
\* duration_ms to 0.0 (stamped = FALSE), output_tokens and cost_usd to None.
Span(model, input_tokens) ==
    [model |-> model, input_tokens |-> input_tokens, output_tokens |-> Unset,
     cost_usd |-> Unset, status |-> "ok", stamped |-> FALSE]

\* TraceCollector.add_span, `if self._current_trace:`: the first of its two reads
\* of _current_trace, none of them under a lock.
add_span_test == current_trace = "active"

\* TraceCollector.add_span, `self._current_trace.add_span(span)`: what the second
\* read of _current_trace raises when another thread has taken the trace off the
\* collector since the test.
NoneTypeError == [type |-> "AttributeError"]

\* Trace.add_span: self.spans.append(span), on the Trace object that was read
Trace_add_span(span) == Append(spans, span)

\* A mutation of OrZero: a missing value is summed as it is stored.
OrZero_Raw(v) == v

\* `span.cost_usd or 0`: None counts as 0
OrZero(v) == IF v = Unset THEN 0 ELSE v

\* sum(span.<field> or 0 for span in self.spans)
RECURSIVE Total(_, _)
Total(sp, field) ==
    IF sp = <<>> THEN 0 ELSE OrZero(sp[1][field]) + Total(Tail(sp), field)

\* Trace.total_cost, Trace.total_input_tokens, Trace.total_output_tokens
total_cost(sp) == Total(sp, "cost_usd")
total_input_tokens(sp) == Total(sp, "input_tokens")
total_output_tokens(sp) == Total(sp, "output_tokens")

\* Span.to_dict: the fields the model keeps, under their keys; None stays None
Span_to_dict(span) ==
    [model |-> span.model, input_tokens |-> span.input_tokens,
     output_tokens |-> span.output_tokens, cost_usd |-> span.cost_usd,
     status |-> span.status, duration_ms |-> span.stamped]

\* Trace.to_dict, of a trace with the spans sp
Trace_to_dict(sp) ==
    [spans |-> [k \in 1..Len(sp) |-> Span_to_dict(sp[k])],
     total_cost |-> total_cost(sp),
     total_input_tokens |-> total_input_tokens(sp),
     total_output_tokens |-> total_output_tokens(sp)]

\* A str is written by the number of characters it takes from the front of the
\* content it was made from, and whether "..." was put after them; None is NoValue.
Str(n) == [chars |-> n, ellipsis |-> FALSE]

\* len(s)
StrLen(s) == s.chars + (IF s.ellipsis THEN 3 ELSE 0)

\* s[:k], of a str or of None (None[:k] is not taken anywhere)
Slice(s, k) == IF s = NoValue THEN NoValue ELSE Str(Min(s.chars, k))

\* Span.__post_init__, for one of the two previews: a non-empty preview longer
\* than MAX_PREVIEW_LENGTH becomes its first MAX_PREVIEW_LENGTH characters + "..."
Truncated(preview) ==
    IF preview # NoValue /\ StrLen(preview) > 0 /\ StrLen(preview) > MAX_PREVIEW_LENGTH
    THEN [chars |-> MAX_PREVIEW_LENGTH, ellipsis |-> TRUE]
    ELSE preview

\* Span(span_id=..., input_preview=..., output_preview=...), with __post_init__:
\* status defaults to "ok", duration_ms to 0.0 (stamped = FALSE)
PreviewSpan(span_id, input_preview, output_preview) ==
    [span_id |-> span_id, status |-> "ok", stamped |-> FALSE,
     input_preview |-> Truncated(input_preview),
     output_preview |-> Truncated(output_preview)]

\* Trace(run_id=run_id, budget_summary=...): no spans, end_time None
Trace(run_id) == [run_id |-> run_id, spans |-> <<>>, end_time |-> Unset]

\* TraceCollector(): no current trace (0 is None). A Trace object outlives the
\* collector's reference to it, so the objects made so far are kept in `traces`
\* and a reference is a place in it; `now` is datetime.now(), `call` the call
\* last made and what it returned, `in_flight` the locals of the intercepted
\* calls that have added their span and whose wrapped operation is not back.
NewCollector ==
    [_current_trace |-> 0, traces |-> <<>>, now |-> 0, call |-> [op |-> "none"],
     in_flight |-> {}]

\* TraceCollector.start_trace
TraceCollector_start_trace(c, run_id) ==
    [c EXCEPT !.traces = Append(@, Trace(run_id)),
              !._current_trace = Len(c.traces) + 1]

\* A mutation of TraceCollector_end_trace: the active slot is not cleared.
TraceCollector_end_trace_KeepsSlot(c) ==
    IF c._current_trace # 0
    THEN [c EXCEPT !.traces[c._current_trace].end_time = c.now]
    ELSE c

\* TraceCollector.end_trace: the collector it leaves (it returns the reference
\* that was current, None when there was none)
TraceCollector_end_trace(c) ==
    IF c._current_trace # 0
    THEN [c EXCEPT !.traces[c._current_trace].end_time = c.now,
                   !._current_trace = 0]
    ELSE c

\* A mutation of TraceCollector_add_span: the span is put in front of the others.
TraceCollector_add_span_InFront(c, span) ==
    IF c._current_trace # 0
    THEN [c EXCEPT !.traces[c._current_trace].spans = <<span>> \o @]
    ELSE c

\* TraceCollector.add_span, with Trace.add_span
TraceCollector_add_span(c, span) ==
    IF c._current_trace # 0
    THEN [c EXCEPT !.traces[c._current_trace].spans = Append(@, span)]
    ELSE c

\* ---------------------------------------------------------- interceptor.py
\* estimated_output_tokens = input_tokens * 4
OutputMultiplier == 4

Paths == {"sync", "async", "crewai", "crewai_async"}

\* The usage report of a response; NoUsage when the response has none.
NoUsage == [prompt_tokens |-> Unset, completion_tokens |-> Unset]
Usage(p, c) == [prompt_tokens |-> p, completion_tokens |-> c]

NoOutcome == [kind |-> "none"]
Returned(usage) == [kind |-> "returned", usage |-> usage]
Raised(exc) == [kind |-> "raised", exc |-> exc]

\* What the wrapped operation may raise: an ordinary Exception, or a BaseException
\* that is no Exception (asyncio.CancelledError, KeyboardInterrupt).
OpException == [type |-> "Exception"]
OpCancelled == [type |-> "CancelledError"]

\* `except Exception:` catches everything but the bare BaseExceptions.
CaughtByExceptException(exc) == exc.type \notin {"CancelledError", "KeyboardInterrupt"}

\* The locals of a thread that is in no intercepted call.
IdleCall ==
    [pc |-> "idle", path |-> "none", model |-> "", messages |-> "dicts", counted |-> 0,
     input_tokens |-> 0, est |-> 0, span |-> 0, prechecked |-> "no", invoked |-> FALSE,
     usage |-> NoUsage,
     actual_input_tokens |-> Unset, output_tokens |-> Unset, cost_usd |-> Unset,
     commit_exc |-> NoError, outcome |-> NoOutcome]

\* token_counter.count_messages failed
CountFails == -1

\* input_tokens: the count, or 0 when counting raised
InputTokens(counted) == IF counted = CountFails THEN 0 ELSE counted

\* A mutation of EstimatedTotalCost: a model without a price is estimated at the
\* price of gpt-4o.
EstimatedTotalCost_Default(model, input_tokens) ==
    LET m == IF Priced(model) THEN model ELSE "gpt-4o"
    IN (get_input_cost(m) * input_tokens) \div 1000
           + (get_output_cost(m) * (input_tokens * OutputMultiplier)) \div 1000

\* estimated_total_cost: from the estimated input tokens and four times as many
\* output tokens, or 0 when the pricing lookup raised
EstimatedTotalCost(model, input_tokens) ==
    IF Priced(model)
    THEN (get_input_cost(model) * input_tokens) \div 1000
             + (get_output_cost(model) * (input_tokens * OutputMultiplier)) \div 1000
    ELSE 0

\* input_preview=messages[0].get("content", "")[:200] if messages else None, in
\* the arguments of Span(...): raises AttributeError when messages[0] is no dict
\* (it has no get) and TypeError when its content is no str (None, a number:
\* not subscriptable).
InputPreviewError(messages) ==
    CASE messages = "not_dicts" -> [type |-> "AttributeError"]
      [] messages = "content_not_str" -> [type |-> "TypeError"]
      [] OTHER -> NoError

InputPreviewRaises(messages) == InputPreviewError(messages) # NoError

\* A mutation of PreCheckPropagates: the interceptor swallows the rejection.
PreCheckPropagates_Swallowed(exc) == FALSE

\* `try: self.budget_tracker.pre_check(...) except BudgetExceededError: raise`
PreCheckPropagates(exc) == exc # NoError

\* actual_input_tokens after a successful invocation, per interception path
ActualInputTokens(path, input_tokens, usage, summary) ==
    CASE path \in {"sync", "async"} ->
             IF usage # NoUsage THEN usage.prompt_tokens ELSE input_tokens
      [] path = "crewai" ->
             IF usage # NoUsage THEN usage.prompt_tokens
             ELSE IF summary # NoUsage THEN summary.prompt_tokens
             ELSE input_tokens
      [] path = "crewai_async" -> input_tokens

\* output_tokens after a successful invocation, per interception path
OutputTokens(path, usage, summary) ==
    CASE path \in {"sync", "async", "crewai_async"} ->
             IF usage # NoUsage THEN usage.completion_tokens ELSE 0
      [] path = "crewai" ->
             IF usage # NoUsage THEN usage.completion_tokens
             ELSE IF summary # NoUsage THEN summary.completion_tokens
             ELSE 0

\* Which exceptions of the commit block leave the interceptor: the generic paths
\* end in `except Exception: pass`, the crewai paths re-raise BudgetExceededError
\* and pass on the rest.
CommitPropagates(path, exc) ==
    /\ path \in {"crewai", "crewai_async"}
    /\ exc.type = "BudgetExceededError"

\* The span updated with the actual usage of a successful call.
SpanOk(span, actual_input_tokens, output_tokens, cost_usd) ==
    [span EXCEPT !.output_tokens = output_tokens,
                 !.input_tokens = actual_input_tokens,
                 !.cost_usd = cost_usd,
                 !.stamped = TRUE,
                 !.status = "ok"]

\* The span of a call whose wrapped operation raised an Exception.
SpanError(span) == [span EXCEPT !.status = "error", !.stamped = TRUE]

\* ------------------------------------------- inputs of intercepted calls
IcModels == {"gpt-4o", "my-own-model"}
MaxTokens == 1
TokenCountOutcomes == {CountFails} \cup (0..MaxTokens)
\* The messages of a call: a list of dicts with str contents, a list of dicts
\* whose first content is no str (None, a number), or a list whose first element
\* is no dict (a plain string, a message object); on the last message.get(...)
\* raises inside count_messages.
MessageShapes == {"dicts", "content_not_str", "not_dicts"}
CountOutcomesOf(messages) ==
    IF messages = "not_dicts" THEN {CountFails} ELSE TokenCountOutcomes
UsageReports == {NoUsage, Usage(1, 4)}
UsageSummaries == {NoUsage, Usage(2, 1)}
OpFailures == {OpException, OpCancelled}
\* get_token_usage_summary() is only asked on the crewai path, for a response
\* without usage
SummariesOf(path, usage) ==
    IF path = "crewai" /\ usage = NoUsage THEN UsageSummaries ELSE {NoUsage}
\* time.time() differences are not modelled: a duration is stamped or it is not
Elapsed == 1
IcCeilings == {0, 50000, 100000}
IcTurnLimits == {NoLimit, 1}

\* _intercept_call and its three siblings, up to the call of pre_check: the model
\* and messages are read, the tokens counted, the cost estimated. The four are the
\* same code up to the return of the wrapped operation, so which of them the call
\* went through (ic[t].path) is drawn where they first differ. A thread's previous
\* call, if any, is over ("done": its caller has the response or the exception).
IcBegin(t) ==
    /\ ic[t].pc \in {"idle", "done"}
    /\ tk[t].pc = "idle"
    /\ ops < MaxOps
    /\ \E model \in IcModels, messages \in MessageShapes :
       \E counted \in CountOutcomesOf(messages) :
         LET it == InputTokens(counted)
             est == EstimatedTotalCost(model, it)
         IN /\ ic' = [ic EXCEPT ![t] = [IdleCall EXCEPT !.pc = "pre_check",
                                                        !.model = model,
                                                        !.messages = messages,
                                                        !.counted = counted,
                                                        !.input_tokens = it,
                                                        !.est = est]]
            /\ tk' = [tk EXCEPT ![t] = PreCheckFrame(est, model)]
    /\ ops' = ops + 1
    /\ UNCHANGED <<trackerVars, burst, traceVars, orchVars, collector, registry>>

\* pre_check raised: the error leaves the interceptor at once.
IcReject(t) ==
    /\ ic[t].pc = "pre_check"
    /\ tk[t].pc = "returned"
    /\ PreCheckPropagates(tk[t].exc)
    /\ ic' = [ic EXCEPT ![t].pc = "done",
                        ![t].prechecked = "raised",
                        ![t].outcome = Raised(tk[t].exc)]
    /\ tk' = [tk EXCEPT ![t] = IdleFrame]
    /\ UNCHANGED <<trackerVars, ops, burst, traceVars, orchVars, collector, registry>>

\* A mutation of TrackedSpan: the span is built before the cost is known.
TrackedSpan_NoCost(model, input_tokens, output_tokens, cost_usd) ==
    [Span(model, input_tokens) EXCEPT !.output_tokens = output_tokens]

\* track_call: Span(run_id, span_type="llm_call", model, input_tokens,
\* output_tokens, cost_usd, status="ok")
TrackedSpan(model, input_tokens, output_tokens, cost_usd) ==
    [Span(model, input_tokens) EXCEPT !.output_tokens = output_tokens,
                                      !.cost_usd = cost_usd,
                                      !.status = "ok"]

\* pre_check passed: the span is built and trace_collector.add_span(span) is
\* entered; when building the span raises, the error leaves the interceptor. With
\* no trace on the collector add_span returns at once, the span is dropped and
\* the wrapped operation is called.
IcAdmit(t) ==
    /\ ic[t].pc = "pre_check"
    /\ tk[t].pc = "returned"
    /\ ~PreCheckPropagates(tk[t].exc)
    /\ ic' = IF InputPreviewRaises(ic[t].messages)
             THEN [ic EXCEPT ![t].pc = "done",
                             ![t].prechecked = IF tk[t].exc = NoError THEN "passed"
                                               ELSE "raised",
                             ![t].outcome = Raised(InputPreviewError(ic[t].messages))]
             ELSE [ic EXCEPT ![t].pc = IF add_span_test THEN "add_span" ELSE "in_flight",
                             ![t].prechecked = IF tk[t].exc = NoError THEN "passed"
                                               ELSE "raised",
                             ![t].invoked = ~add_span_test]
    /\ tk' = [tk EXCEPT ![t] = IdleFrame]
    /\ UNCHANGED <<trackerVars, ops, burst, traceVars, orchVars, collector, registry>>

\* The span thread t's call is adding: the one of an intercepted call, opened
\* before the invocation, or the one of track_call.
PendingSpan(t) ==
    IF ic[t].path = "track_call"
    THEN TrackedSpan(ic[t].model, ic[t].input_tokens, ic[t].output_tokens,
                     ic[t].cost_usd)
    ELSE Span(ic[t].model, ic[t].input_tokens)

\* TraceCollector.add_span after its test: _current_trace is read again, for the
\* call of its add_span; None has no add_span, and the AttributeError leaves the
\* interceptor before the wrapped operation is called.
AddSpanRead(t) ==
    /\ ic[t].pc = "add_span"
    /\ ic' = IF current_trace = "active"
             THEN [ic EXCEPT ![t].pc = "add_span_append"]
             ELSE [ic EXCEPT ![t].pc = "done", ![t].outcome = Raised(NoneTypeError)]
    /\ UNCHANGED <<trackerVars, tk, ops, burst, traceVars, orchVars, collector, registry>>

\* Trace.add_span on the trace that was read, whether or not it is still the
\* collector's; then the wrapped operation is called (an intercepted call) or
\* track_call returns.
AddSpanAppend(t) ==
    /\ ic[t].pc = "add_span_append"
    /\ spans' = Trace_add_span(PendingSpan(t))
    /\ ic' = IF ic[t].path = "track_call"
             THEN [ic EXCEPT ![t].pc = "done", ![t].span = Len(spans) + 1,
                             ![t].outcome = Returned(NoUsage)]
             ELSE [ic EXCEPT ![t].pc = "in_flight", ![t].span = Len(spans) + 1,
                             ![t].invoked = TRUE]
    /\ UNCHANGED <<trackerVars, tk, ops, burst, current_trace, orchVars, collector, registry>>

\* The wrapped operation raises: `except Exception:` marks the span and re-raises;
\* a BaseException passes it by.
IcOpRaises(t) ==
    /\ ic[t].pc = "in_flight"
    /\ \E path \in Paths, exc \in OpFailures :
         /\ spans' = IF CaughtByExceptException(exc) /\ ic[t].span # 0
                     THEN [spans EXCEPT ![ic[t].span] = SpanError(@)]
                     ELSE spans
         /\ ic' = [ic EXCEPT ![t].pc = "done", ![t].path = path,
                             ![t].outcome = Raised(exc)]
    /\ UNCHANGED <<trackerVars, tk, ops, burst, current_trace, orchVars, collector, registry>>

\* The wrapped operation returns: the usage is read, the actual cost computed, the
\* span updated and record_call called; an UnknownModelError of estimate_call_cost
\* ends the block (it is swallowed) before the span or the ledger is touched.
IcOpReturns(t) ==
    /\ ic[t].pc = "in_flight"
    /\ \E path \in Paths, usage \in UsageReports :
       \E summary \in SummariesOf(path, usage) :
         LET ait == ActualInputTokens(path, ic[t].input_tokens, usage, summary)
             ot == OutputTokens(path, usage, summary)
         IN IF Priced(ic[t].model)
            THEN LET cost == estimate_call_cost(ic[t].model, ait, ot)
                 IN /\ spans' = IF ic[t].span # 0
                                THEN [spans EXCEPT ![ic[t].span] = SpanOk(@, ait, ot, cost)]
                                ELSE spans
                    /\ ic' = [ic EXCEPT ![t].pc = "commit",
                                        ![t].path = path,
                                        ![t].usage = usage,
                                        ![t].actual_input_tokens = ait,
                                        ![t].output_tokens = ot,
                                        ![t].cost_usd = cost]
                    /\ tk' = [tk EXCEPT ![t] = RecordCallFrame(ait, ot, ic[t].model,
                                                               cost, Elapsed)]
            ELSE /\ ic' = [ic EXCEPT ![t].pc = "done",
                                     ![t].path = path,
                                     ![t].usage = usage,
                                     ![t].outcome = Returned(usage)]
                 /\ UNCHANGED <<spans, tk>>
    /\ UNCHANGED <<trackerVars, ops, burst, current_trace, orchVars, collector, registry>>

\* record_call is back: what it raised is swallowed (or re-raised, see
\* CommitPropagates), and the response is returned.
IcAfterCommit(t) ==
    /\ ic[t].pc = "commit"
    /\ tk[t].pc = "returned"
    /\ ic' = [ic EXCEPT ![t].pc = "done",
                        ![t].commit_exc = tk[t].exc,
                        ![t].outcome = IF tk[t].exc # NoError
                                          /\ CommitPropagates(ic[t].path, tk[t].exc)
                                       THEN Raised(tk[t].exc)
                                       ELSE Returned(ic[t].usage)]
    /\ tk' = [tk EXCEPT ![t] = IdleFrame]
    /\ UNCHANGED <<trackerVars, ops, burst, traceVars, orchVars, collector, registry>>

\* track_call(model, input_tokens, output_tokens), up to the call of pre_check:
\* the cost is computed; the UnknownModelError of estimate_call_cost is not caught.
TrackBegin(t) ==
    /\ ic[t].pc \in {"idle", "done"}
    /\ tk[t].pc = "idle"
    /\ ops < MaxOps
    /\ \E model \in IcModels, input_tokens \in 0..MaxTokens, output_tokens \in 0..MaxTokens :
         IF Priced(model)
         THEN LET cost_usd == estimate_call_cost(model, input_tokens, output_tokens)
              IN /\ ic' = [ic EXCEPT ![t] = [IdleCall EXCEPT !.pc = "track_pre_check",
                                                             !.path = "track_call",
                                                             !.model = model,
                                                             !.input_tokens = input_tokens,
                                                             !.output_tokens = output_tokens,
                                                             !.cost_usd = cost_usd,
                                                             !.est = cost_usd]]
                 /\ tk' = [tk EXCEPT ![t] = PreCheckFrame(cost_usd, model)]
         ELSE /\ ic' = [ic EXCEPT ![t] = [IdleCall EXCEPT
                                             !.pc = "done",
                                             !.path = "track_call",
                                             !.model = model,
                                             !.input_tokens = input_tokens,
                                             !.output_tokens = output_tokens,
                                             !.outcome = Raised(UnknownModelError(model))]]
              /\ tk' = tk
    /\ ops' = ops + 1
    /\ UNCHANGED <<trackerVars, burst, traceVars, orchVars, collector, registry>>

\* track_call, pre_check is back: what it raised leaves track_call; otherwise
\* record_call is called with the same tokens and cost and a duration of 0.0.
TrackAfterPreCheck(t) ==
    /\ ic[t].pc = "track_pre_check"
    /\ tk[t].pc = "returned"
    /\ IF tk[t].exc # NoError
       THEN /\ ic' = [ic EXCEPT ![t].pc = "done",
                                ![t].prechecked = "raised",
                                ![t].outcome = Raised(tk[t].exc)]
            /\ tk' = [tk EXCEPT ![t] = IdleFrame]
       ELSE /\ ic' = [ic EXCEPT ![t].pc = "track_record", ![t].prechecked = "passed"]
            /\ tk' = [tk EXCEPT ![t] = RecordCallFrame(ic[t].input_tokens,
                                                       ic[t].output_tokens, ic[t].model,
                                                       ic[t].cost_usd, 0)]
    /\ UNCHANGED <<trackerVars, ops, burst, traceVars, orchVars, collector, registry>>

\* track_call, record_call is back: what it raised leaves track_call; otherwise
\* the span is built and trace_collector.add_span(span) is entered, which returns
\* at once when the collector has no trace.
TrackAfterRecord(t) ==
    /\ ic[t].pc = "track_record"
    /\ tk[t].pc = "returned"
    /\ ic' = IF tk[t].exc # NoError
             THEN [ic EXCEPT ![t].pc = "done",
                             ![t].commit_exc = tk[t].exc,
                             ![t].outcome = Raised(tk[t].exc)]
             ELSE IF add_span_test
             THEN [ic EXCEPT ![t].pc = "add_span"]
             ELSE [ic EXCEPT ![t].pc = "done", ![t].outcome = Returned(NoUsage)]
    /\ tk' = [tk EXCEPT ![t] = IdleFrame]
    /\ UNCHANGED <<trackerVars, ops, burst, traceVars, orchVars, collector, registry>>

\* No intercepted call, no trace.
NoInterception ==
    /\ ic = [t \in Threads |-> IdleCall]
    /\ spans = <<>>
    /\ current_trace = "none"

\* ------------------------------------------------- hook points (interceptor.py)
\* The keys of LLMInterceptor._originals, one per hook point activate() may replace.
LitellmHooks ==
    {"litellm.completion", "litellm.acompletion", "litellm.chat.completions.create",
     "litellm.completion_with_functions", "litellm.acompletion_with_functions"}
OpenaiHooks == {"openai.chat.completions.create", "openai.async.chat.completions.create"}
CrewaiHooks == {"crewai._call_completions", "crewai._acall_completions"}
HookPoints == LitellmHooks \cup OpenaiHooks \cup CrewaiHooks

\* A callable is written as the sequence of the interceptors wrapped around the
\* library's own function, outermost first; <<>> is the library's own function.
LibraryFunction == <<>>

\* _make_patcher / _make_async_patcher / the crewai closures: a new callable of
\* interceptor id that calls through to original.
_make_patcher(id, original) == <<id>> \o original

\* The protected runs of a process are numbered in the order they begin; run r
\* is one call of a decorated function, on whichever thread makes it, and runs
\* on different threads overlap. Each run makes its own tracker, collector and
\* interceptor, which live on for as long as a hook point holds a wrapper that
\* refers to them.
Runs == 1..MaxRuns

\* LLMInterceptor(...): nothing saved, not active. pc and at are the position of
\* the run's thread inside its activate() or deactivate(): what it does next, and the
\* place in PatchOrder of the hook point it does it to.
NewInterceptor(id) ==
    [id |-> id, _active |-> FALSE, _originals |-> <<>>, pc |-> "idle", at |-> 0]
NoInterceptor == NewInterceptor(0)

\* The keys of _originals that the loop of deactivate() has a branch for: those
\* starting with "litellm." and the two openai keys.
RestoredByDeactivate == LitellmHooks \cup OpenaiHooks

\* The order in which activate() comes to the hook points: _patch_litellm (its
\* methods_to_patch), _patch_openai (sync, async), _patch_crewai (sync, async).
\* _originals is a dict, so the loop of deactivate() takes its keys in the order
\* they were saved, which is this one.
PatchOrder ==
    <<"litellm.completion", "litellm.acompletion", "litellm.chat.completions.create",
      "litellm.completion_with_functions", "litellm.acompletion_with_functions",
      "openai.chat.completions.create", "openai.async.chat.completions.create",
      "crewai._call_completions", "crewai._acall_completions">>

\* Which of the three patch methods comes to place j of PatchOrder (0 for none).
PatchMethodOf(j) ==
    IF j = 0 THEN 0
    ELSE IF PatchOrder[j] \in LitellmHooks THEN 1
    ELSE IF PatchOrder[j] \in OpenaiHooks THEN 2
    ELSE 3

\* The least member of a set of places, 0 for the empty set.
First(places) ==
    IF places = {} THEN 0 ELSE CHOOSE j \in places : \A i \in places : j <= i

\* The place of the next hook point after place k that the libraries have (the
\* hasattr tests pass), 0 when there is none.
NextPatch(k) == First({j \in (k + 1)..Len(PatchOrder) : PatchOrder[j] \in present})

\* The place of the previous hook point the libraries have, 0 when there is none.
PrevPatch(k) ==
    LET before == {j \in 1..(k - 1) : PatchOrder[j] \in present}
    IN IF before = {} THEN 0 ELSE CHOOSE j \in before : \A i \in before : i <= j

\* The place of the next key after place k that deactivate() of run r's
\* interceptor puts back, 0 when there is none.
NextRestore(r, k) ==
    First({j \in (k + 1)..Len(PatchOrder) :
              /\ PatchOrder[j] \in DOMAIN interceptor[r]._originals
              /\ PatchOrder[j] \in RestoredByDeactivate})

\* activate() of run r's interceptor is entered: `if self._active` (a fresh
\* interceptor is not), then the patch methods, which hold no lock.
activate_enter(r) ==
    /\ ~interceptor[r]._active
    /\ interceptor[r].pc = "idle"
    /\ interceptor' = [interceptor EXCEPT
                          ![r].pc = IF NextPatch(0) = 0 THEN "finish" ELSE "save",
                          ![r].at = NextPatch(0)]
    /\ hook' = hook

\* A patch method reads the callable a hook point holds and saves it:
\* `self._originals[key] = obj`.
PatchSave(r) ==
    /\ interceptor[r].pc = "save"
    /\ LET h == PatchOrder[interceptor[r].at]
       IN interceptor' = [interceptor EXCEPT
                             ![r]._originals = (h :> hook[h]) @@ @,
                             ![r].pc = "set"]
    /\ hook' = hook

\* A patch method assigns the patched callable, made around the callable it
\* saved, to the hook point, and goes on to the next one.
PatchSet(r) ==
    /\ interceptor[r].pc = "set"
    /\ LET h == PatchOrder[interceptor[r].at]
           next == NextPatch(interceptor[r].at)
       IN /\ hook' = [hook EXCEPT ![h] = _make_patcher(interceptor[r].id,
                                                       interceptor[r]._originals[h])]
          /\ interceptor' = [interceptor EXCEPT
                                ![r].pc = IF next = 0 THEN "finish" ELSE "save",
                                ![r].at = next]

\* activate(): the patch methods are through, `self._active = True`.
activate_finish(r) ==
    /\ interceptor[r].pc = "finish"
    /\ interceptor' = [interceptor EXCEPT ![r]._active = TRUE, ![r].pc = "idle"]
    /\ hook' = hook

\* What a patch method raises when it fails with something other than ImportError
\* (an import of openai or crewai that breaks, an attribute that cannot be set).
PatchError == [type |-> "AttributeError"]

\* Where activate() of run r's interceptor can raise: at the assignment to a
\* hook point (the key is saved already), or at the import that _patch_openai or
\* _patch_crewai starts with (before the first hook point of that method, or
\* after the last hook point when the method has none). The import of litellm
\* cannot: TokenCounter() imported it before the try block was entered.
\* `self._active = True` is not reached, what was saved and replaced so far stays.
PatchCanRaise(r) ==
    \/ interceptor[r].pc = "set"
    \/ /\ interceptor[r].pc = "save"
       /\ PatchMethodOf(interceptor[r].at) > 1
       /\ PatchMethodOf(interceptor[r].at) > PatchMethodOf(PrevPatch(interceptor[r].at))
    \/ /\ interceptor[r].pc = "finish"
       /\ PatchMethodOf(PrevPatch(Len(PatchOrder) + 1)) < 3

activate_fails(r) ==
    /\ PatchCanRaise(r)
    /\ interceptor' = [interceptor EXCEPT ![r].pc = "idle", ![r].at = 0]
    /\ hook' = hook

\* deactivate() is entered: nothing if the interceptor is not active; else the
\* loop over _originals.items() starts, and with no key it has a branch for goes
\* straight on to `self._originals.clear()` and `self._active = False`. No lock
\* is held.
deactivate_enter(r) ==
    /\ interceptor[r].pc = "idle"
    /\ interceptor' =
          IF ~interceptor[r]._active THEN interceptor
          ELSE IF NextRestore(r, 0) = 0
          THEN [interceptor EXCEPT ![r]._originals = <<>>, ![r]._active = FALSE]
          ELSE [interceptor EXCEPT ![r].pc = "restore", ![r].at = NextRestore(r, 0)]
    /\ hook' = hook

\* deactivate(), a turn of its loop: the saved callable is assigned back to the
\* hook point; after the last one, `self._originals.clear()` and
\* `self._active = False`.
deactivate_next(r) ==
    /\ interceptor[r].pc = "restore"
    /\ LET j == interceptor[r].at
           next == NextRestore(r, j)
       IN /\ hook' = [hook EXCEPT ![PatchOrder[j]] =
                                      interceptor[r]._originals[PatchOrder[j]]]
          /\ interceptor' =
                IF next = 0
                THEN [interceptor EXCEPT ![r]._originals = <<>>,
                                         ![r]._active = FALSE,
                                         ![r].pc = "idle",
                                         ![r].at = 0]
                ELSE [interceptor EXCEPT ![r].at = next]

\* ------------------------------------------- protected runs (circuit_breaker.py)
\* What the wrapped function does in the end.
RunReturned == [kind |-> "returned", value |-> "result"]
RunReturnedNone == [kind |-> "returned", value |-> "None"]
WorkBudgetExceeded == Raised(BudgetExceededError(RunId, 1, 1, "gpt-4o"))
WorkTurnLimit == Raised(TurnLimitError(RunId, 1, 2))
WorkOutcomes ==
    {RunReturned, WorkBudgetExceeded, WorkTurnLimit, Raised(OpException),
     Raised(OpCancelled)}

OnExceedPolicies == {"raise", "return_none"}
TraceExports == {"none", "console", "otlp"}

\* A mutation of AfterExcept: the except clause catches every TetherError.
AfterExcept_AnyTetherError(outcome, on_exceed) ==
    IF /\ outcome.kind = "raised"
       /\ outcome.exc.type \in {"BudgetExceededError", "TurnLimitError"}
       /\ on_exceed = "return_none"
    THEN RunReturnedNone
    ELSE outcome

\* except BudgetExceededError: return None if on_exceed == "return_none", else raise;
\* everything else leaves the try block as it came.
AfterExcept(outcome, on_exceed) ==
    IF /\ outcome.kind = "raised"
       /\ outcome.exc.type = "BudgetExceededError"
       /\ on_exceed = "return_none"
    THEN RunReturnedNone
    ELSE outcome

\* exporter.get_exporter: the types it knows; any other raises ValueError.
KnownExporters == {"console", "json", "none", "noop"}

\* A mutation of ExportDue: the trace is exported whatever the policy.
ExportDue_Always(trace, trace_export) == trace # "None"

\* if trace and trace_export != "none"
ExportDue(trace, trace_export) == trace # "None" /\ trace_export # "none"

\* The metered call the work of a run makes: model gpt-4o, messages counted at
\* MaxTokens tokens, a response that reports as many prompt tokens and
\* OutputMultiplier times as many completion tokens. CallCost is what pre_check is
\* asked for and what such a response costs; a run may spend two of them.
CallModel == "gpt-4o"
CallUsage == Usage(MaxTokens, MaxTokens * OutputMultiplier)
CallCost == EstimatedTotalCost(CallModel, MaxTokens)
RunCeiling == 2 * CallCost

\* The position of a run's work inside a metered call: the hook point h it called,
\* the callable f it found there (interceptor ids, outermost first), the wrapper
\* pos it is in, the places of the wrappers whose span went into a trace, and what
\* was raised and in which wrapper (0: in the library function).
NoCall ==
    [phase |-> "none", h |-> "", f |-> <<>>, pos |-> 0, added |-> {},
     raised |-> NoError, by |-> 0]

\* The locals of _run_with_budget / _run_with_budget_async of one run, with the
\* tracker and the trace of the run (spent_usd, turn_count, n_spans, and
\* n_error_spans, the spans of the trace whose status is "error").
IdleRun ==
    [pc |-> "idle", on_exceed |-> "raise", trace_export |-> "none",
     current_trace |-> "none", trace |-> "unset", exit |-> NoOutcome,
     pending |-> NoOutcome,
     deactivate_calls |-> 0, end_trace_calls |-> 0, export_calls |-> 0,
     result |-> NoOutcome,
     spent_usd |-> 0, turn_count |-> 0, n_spans |-> 0, n_error_spans |-> 0,
     issued |-> 0, call |-> NoCall]

\* _run_with_budget up to the try block: the run's own tracker, collector (its
\* trace started) and interceptor are made.
RunBeginWith(r, policies, exports) ==
    /\ run[r].pc = "idle"
    /\ r = runs_started + 1
    /\ runs_started' = runs_started + 1
    /\ \E on_exceed \in policies, trace_export \in exports :
         run' = [run EXCEPT ![r] = [IdleRun EXCEPT !.pc = "armed",
                                                   !.on_exceed = on_exceed,
                                                   !.trace_export = trace_export,
                                                   !.current_trace = "active"]]
    /\ interceptor' = [interceptor EXCEPT ![r] = NewInterceptor(r)]
    /\ UNCHANGED <<trackerVars, tk, ops, burst, ic, traceVars, present, hook, collector, registry>>

\* enforce_budget(..., on_exceed=..., trace_export=...) with any of the policies
RunBegin(r) == RunBeginWith(r, OnExceedPolicies, TraceExports)

\* What the statements of _run_with_budget before the try block raise when they
\* fail: TokenCounter() lets through whatever `import litellm` raises other than
\* ImportError, and raises TokenCountError when neither litellm nor tiktoken loads.
ImportBroken == [type |-> "RuntimeError"]
TokenCountError == [type |-> "TokenCountError"]
ConstructionErrors == {ImportBroken, TokenCountError}

\* _run_with_budget raising before its try block: the tracker is made, no
\* collector and no interceptor; the function is not called and nothing of the
\* finally block runs.
RunBeginFails(r) ==
    /\ run[r].pc = "idle"
    /\ r = runs_started + 1
    /\ runs_started' = runs_started + 1
    /\ \E exc \in ConstructionErrors :
         run' = [run EXCEPT ![r] = [IdleRun EXCEPT !.pc = "not_entered",
                                                   !.result = Raised(exc)]]
    /\ UNCHANGED <<trackerVars, tk, ops, burst, ic, traceVars, present, hook, interceptor,
                   collector, registry>>

\* try: interceptor.activate() is entered
RunActivate(r) ==
    /\ run[r].pc = "armed"
    /\ activate_enter(r)
    /\ run' = [run EXCEPT ![r].pc = "activating"]
    /\ UNCHANGED <<trackerVars, tk, ops, burst, ic, traceVars, present, runs_started,
                   collector, registry>>

\* interceptor.activate(): one hook point is read and saved, or replaced
RunPatch(r) ==
    /\ run[r].pc = "activating"
    /\ PatchSave(r) \/ PatchSet(r)
    /\ UNCHANGED <<trackerVars, tk, ops, burst, ic, traceVars, present, run, runs_started,
                   collector, registry>>

\* interceptor.activate() returns; result = func(*args, **kwargs) is called
RunActivated(r) ==
    /\ run[r].pc = "activating"
    /\ activate_finish(r)
    /\ run' = [run EXCEPT ![r].pc = "executing"]
    /\ UNCHANGED <<trackerVars, tk, ops, burst, ic, traceVars, present, runs_started,
                   collector, registry>>

\* try: interceptor.activate() raising partway: the wrapped function is not called,
\* the exception goes through the except clause into the finally block.
RunActivateFails(r) ==
    /\ run[r].pc = "activating"
    /\ activate_fails(r)
    /\ run' = [run EXCEPT ![r].pc = "finally",
                          ![r].exit = Raised(PatchError),
                          ![r].pending = AfterExcept(Raised(PatchError), run[r].on_exceed)]
    /\ UNCHANGED <<trackerVars, tk, ops, burst, ic, traceVars, present, runs_started,
                   collector, registry>>

\* Whether the pre_check of run u's tracker refuses a call estimated at CallCost.
RunRejects(u) == Exceeds(run[u].spent_usd + CallCost, RunCeiling)

\* The interception path behind a hook point: _make_patcher (_intercept_call) on
\* every litellm hook point and on the sync openai one, _make_async_patcher on
\* the async openai one, the two crewai closures on the crewai ones.
PathOf(h) ==
    IF h = "openai.async.chat.completions.create" THEN "async"
    ELSE IF h = "crewai._call_completions" THEN "crewai"
    ELSE IF h = "crewai._acall_completions" THEN "crewai_async"
    ELSE "sync"

\* The async litellm functions, which _patch_litellm wraps with the synchronous
\* _make_patcher: the wrapper gets the coroutine, not yet awaited.
ReturnsCoroutine(h) ==
    h \in {"litellm.acompletion", "litellm.acompletion_with_functions"}

\* The usage a wrapper finds on what the callable it wraps returned: the
\* response's; a coroutine has none.
UsageSeen(h) == IF ReturnsCoroutine(h) THEN NoUsage ELSE CallUsage

\* cost_usd of the commit of a call through hook point h
ChargedCost(h) ==
    estimate_call_cost(CallModel,
                       ActualInputTokens(PathOf(h), MaxTokens, UsageSeen(h), NoUsage),
                       OutputTokens(PathOf(h), UsageSeen(h), NoUsage))

\* The call frame after the wrapper at place pos has let the call through: the
\* callable it saved is called, the next wrapper or the library function.
Inward(c) ==
    IF c.pos = Len(c.f)
    THEN [c EXCEPT !.phase = "library"]
    ELSE [c EXCEPT !.phase = "pre_check", !.pos = c.pos + 1]

\* The call frame after an exception has left the callable at place pos (the
\* library function stands after the last wrapper): it is raised by the
\* `original_fn(...)` of the wrapper around it, or reaches the work.
Outward(c, exc) ==
    IF c.pos = 1 \/ Len(c.f) = 0
    THEN [c EXCEPT !.phase = "done", !.raised = exc]
    ELSE [c EXCEPT !.phase = "unwind", !.pos = c.pos - 1, !.raised = exc]

\* The call frame after an exception raised by the wrapper at place pos itself,
\* before its `try: original_fn(...)`.
Unwound(c, exc) == [Outward(c, exc) EXCEPT !.by = c.f[c.pos]]

\* The work of run r calls a hook point: whatever callable the hook point holds
\* at that moment is entered.
RunCallEnter(r) ==
    /\ run[r].pc = "executing"
    /\ run[r].call.phase = "none"
    /\ run[r].issued < MaxCalls
    /\ \E h \in present :
         run' = [run EXCEPT ![r].issued = @ + 1,
                            ![r].call = [NoCall EXCEPT
                                            !.h = h, !.f = hook[h],
                                            !.phase = IF hook[h] = <<>> THEN "library"
                                                      ELSE "pre_check",
                                            !.pos = IF hook[h] = <<>> THEN 0 ELSE 1]]
    /\ UNCHANGED <<trackerVars, tk, ops, burst, ic, traceVars, present, hook,
                   interceptor, runs_started, collector, registry>>

\* A wrapper's pre_check, against the tracker of the interceptor that installed
\* it: BudgetExceededError leaves the wrapper, else its span is built.
RunCallPreCheck(r) ==
    LET c == run[r].call IN
    /\ c.phase = "pre_check"
    /\ run' = [run EXCEPT ![r].call =
                  IF RunRejects(c.f[c.pos])
                  THEN Unwound(c, BudgetExceededError(RunId, RunCeiling,
                                                      run[c.f[c.pos]].spent_usd + CallCost,
                                                      CallModel))
                  ELSE [c EXCEPT !.phase = "add_span"]]
    /\ UNCHANGED <<trackerVars, tk, ops, burst, ic, traceVars, present, hook,
                   interceptor, runs_started, collector, registry>>

\* A wrapper's trace_collector.add_span, the test `if self._current_trace`: with
\* no current trace the span is dropped and the saved callable is called.
RunCallAddSpan(r) ==
    LET c == run[r].call IN
    /\ c.phase = "add_span"
    /\ run' = [run EXCEPT ![r].call =
                  IF run[c.f[c.pos]].current_trace = "active"
                  THEN [c EXCEPT !.phase = "add_span_read"]
                  ELSE Inward(c)]
    /\ UNCHANGED <<trackerVars, tk, ops, burst, ic, traceVars, present, hook,
                   interceptor, runs_started, collector, registry>>

\* add_span reads _current_trace again for the call of its add_span; after an
\* end_trace in between it is None and AttributeError leaves the wrapper.
RunCallSpanRead(r) ==
    LET c == run[r].call IN
    /\ c.phase = "add_span_read"
    /\ run' = [run EXCEPT ![r].call =
                  IF run[c.f[c.pos]].current_trace = "active"
                  THEN [c EXCEPT !.phase = "add_span_append"]
                  ELSE Unwound(c, NoneTypeError)]
    /\ UNCHANGED <<trackerVars, tk, ops, burst, ic, traceVars, present, hook,
                   interceptor, runs_started, collector, registry>>

\* Trace.add_span on the trace that was read (of the run whose interceptor
\* installed the wrapper), then the saved callable is called.
RunCallSpanAppend(r) ==
    LET c == run[r].call
        owner == c.f[c.pos]
    IN /\ c.phase = "add_span_append"
       /\ run' = [u \in Runs |->
                    LET traced == IF u = owner THEN [run[u] EXCEPT !.n_spans = @ + 1]
                                  ELSE run[u]
                    IN IF u = r
                       THEN [traced EXCEPT !.call = [Inward(c) EXCEPT
                                                        !.added = @ \cup {c.pos}]]
                       ELSE traced]
       /\ UNCHANGED <<trackerVars, tk, ops, burst, ic, traceVars, present, hook,
                      interceptor, runs_started, collector, registry>>

\* The library function, called with no lock held: it returns its response to
\* the innermost wrapper (to the work when the hook point held no wrapper), or it
\* raises, an Exception or a BaseException that is none, into the wrapper's
\* `try: response = original_fn(...)`. Behind litellm.acompletion the synchronous
\* wrappers were handed the coroutine and return it: what the library raises is
\* raised when the work awaits it, after the wrappers have committed.
RunCallLibrary(r) ==
    LET c == run[r].call IN
    /\ c.phase = "library"
    /\ \/ run' = [run EXCEPT ![r].call =
                     IF Len(c.f) = 0 THEN [c EXCEPT !.phase = "done"]
                     ELSE [c EXCEPT !.phase = "commit", !.pos = Len(c.f)]]
       \/ \E exc \in OpFailures :
             run' = [run EXCEPT ![r].call =
                        IF ReturnsCoroutine(c.h) /\ Len(c.f) > 0
                        THEN [c EXCEPT !.phase = "commit", !.pos = Len(c.f),
                                       !.raised = exc]
                        ELSE Outward([c EXCEPT !.pos = Len(c.f) + 1], exc)]
    /\ UNCHANGED <<trackerVars, tk, ops, burst, ic, traceVars, present, hook,
                   interceptor, runs_started, collector, registry>>

\* An exception leaves the callable a wrapper called: `except Exception:` sets
\* span.status = "error" on the wrapper's span (in the trace of the run whose
\* interceptor installed the wrapper, if it went into one) and re-raises, a
\* BaseException passes the clause by; no record_call is made, and the exception
\* goes on to the wrapper around this one, or to the work.
RunCallUnwind(r) ==
    LET c == run[r].call
        owner == c.f[c.pos]
    IN /\ c.phase = "unwind"
       /\ run' = [u \in Runs |->
                    LET marked == IF /\ u = owner
                                     /\ c.pos \in c.added
                                     /\ CaughtByExceptException(c.raised)
                                  THEN [run[u] EXCEPT !.n_error_spans = @ + 1]
                                  ELSE run[u]
                    IN IF u = r THEN [marked EXCEPT !.call = Outward(c, c.raised)]
                       ELSE marked]
       /\ UNCHANGED <<trackerVars, tk, ops, burst, ic, traceVars, present, hook,
                      interceptor, runs_started, collector, registry>>

\* A wrapper's commit: record_call on the tracker of the interceptor that
\* installed it, with the cost it computes from what it was returned; then it
\* returns the response to the wrapper around it, or to the work.
RunCallCommit(r) ==
    LET c == run[r].call
        owner == c.f[c.pos]
        after == IF c.pos = 1 THEN [c EXCEPT !.phase = "done"]
                 ELSE [c EXCEPT !.pos = c.pos - 1]
    IN /\ c.phase = "commit"
       /\ run' = [u \in Runs |->
                    LET charged ==
                            IF u = owner
                            THEN [run[u] EXCEPT
                                     !.spent_usd = Clamp(@ + ChargedCost(c.h), RunCeiling),
                                     !.turn_count = @ + 1]
                            ELSE run[u]
                    IN IF u = r THEN [charged EXCEPT !.call = after] ELSE charged]
       /\ UNCHANGED <<trackerVars, tk, ops, burst, ic, traceVars, present, hook,
                      interceptor, runs_started, collector, registry>>

\* The wrapped function returns, raises, or (awaited) is cancelled; the except
\* clause decides what leaves the try block, and the finally block is entered.
RunWorkEndsWith(r, outcomes) ==
    /\ run[r].pc = "executing"
    /\ run[r].call.phase \in {"none", "done"}
    /\ \E outcome \in outcomes :
         run' = [run EXCEPT ![r].pc = "finally",
                            ![r].exit = outcome,
                            ![r].pending = AfterExcept(outcome, run[r].on_exceed)]
    /\ UNCHANGED <<trackerVars, tk, ops, burst, ic, traceVars, present, hook,
                   interceptor, runs_started, collector, registry>>

RunWorkEnds(r) == RunWorkEndsWith(r, WorkOutcomes)

\* The wrapped function does not catch what its metered call raised: the
\* exception leaves it, through the except clause into the finally block.
RunCallEscapes(r) ==
    /\ run[r].pc = "executing"
    /\ run[r].call.phase = "done"
    /\ run[r].call.raised # NoError
    /\ run' = [run EXCEPT ![r].pc = "finally",
                          ![r].exit = Raised(run[r].call.raised),
                          ![r].pending = AfterExcept(Raised(run[r].call.raised),
                                                     run[r].on_exceed)]
    /\ UNCHANGED <<trackerVars, tk, ops, burst, ic, traceVars, present, hook,
                   interceptor, runs_started, collector, registry>>

\* finally: interceptor.deactivate() is entered; it returns at once when the
\* interceptor is not active or has nothing to put back.
RunDeactivate(r) ==
    /\ run[r].pc = "finally"
    /\ deactivate_enter(r)
    /\ run' = [run EXCEPT ![r].pc = IF interceptor'[r].pc = "restore"
                                    THEN "deactivating" ELSE "deactivated",
                          ![r].deactivate_calls = @ + 1]
    /\ UNCHANGED <<trackerVars, tk, ops, burst, ic, traceVars, present, runs_started,
                   collector, registry>>

\* interceptor.deactivate(): the next key is put back; after the last it returns
RunRestore(r) ==
    /\ run[r].pc = "deactivating"
    /\ deactivate_next(r)
    /\ run' = [run EXCEPT ![r].pc = IF interceptor'[r].pc = "restore"
                                    THEN "deactivating" ELSE "deactivated"]
    /\ UNCHANGED <<trackerVars, tk, ops, burst, ic, traceVars, present, runs_started,
                   collector, registry>>

\* TraceCollector.end_trace of a run's collector: the current trace, ended, or None.
end_trace(r) ==
    [r EXCEPT !.trace = IF r.current_trace = "active" THEN "ended" ELSE "None",
              !.current_trace = "none"]

\* finally: trace = trace_collector.end_trace()
RunEndTrace(r) ==
    /\ run[r].pc = "deactivated"
    /\ run' = [run EXCEPT ![r] = [end_trace(run[r]) EXCEPT !.pc = "ended",
                                                          !.end_trace_calls = @ + 1]]
    /\ UNCHANGED <<trackerVars, tk, ops, burst, ic, traceVars, present, hook,
                   interceptor, runs_started, collector, registry>>

\* finally: if trace and trace_export != "none": get_exporter(...).export(trace);
\* then what left the try block leaves the function, unless get_exporter raised.
RunExport(r) ==
    /\ run[r].pc = "ended"
    /\ run' = [run EXCEPT
                  ![r].pc = "torn_down",
                  ![r].export_calls =
                      IF /\ ExportDue(run[r].trace, run[r].trace_export)
                         /\ run[r].trace_export \in KnownExporters
                      THEN @ + 1 ELSE @,
                  ![r].result =
                      IF /\ ExportDue(run[r].trace, run[r].trace_export)
                         /\ run[r].trace_export \notin KnownExporters
                      THEN Raised(ValueError) ELSE run[r].pending]
    /\ UNCHANGED <<trackerVars, tk, ops, burst, ic, traceVars, present, hook,
                   interceptor, runs_started, collector, registry>>

\* No protected run, no library installed.
NoOrchestration ==
    /\ present = {}
    /\ hook = [h \in HookPoints |-> LibraryFunction]
    /\ interceptor = [r \in Runs |-> NoInterceptor]
    /\ run = [r \in Runs |-> IdleRun]
    /\ runs_started = 0

\* ------------------------------------- the tracker driven through its API
\* Callers on several threads use one tracker directly (tests/unit/test_budget.py).
LedgerCeilings == {0, MaxCost, 2 * MaxCost + 1}
LedgerCosts == -1..MaxCost
LedgerTurnLimits == {NoLimit, 1, 2}
LedgerModels == {"gpt-4o", "unknown"}

LedgerInit ==
    /\ \E mu \in LedgerCeilings, mt \in LedgerTurnLimits : TrackerInit(mu, mt)
    /\ tk = [t \in Threads |-> IdleFrame]
    /\ ops = 0
    /\ burst = NoBurst
    /\ NoInterception
    /\ NoOrchestration
    /\ collector = NewCollector
    /\ registry = NewRegistry

\* tracker.pre_check(estimated_cost, model)
LedgerCallPreCheck(t) ==
    /\ tk[t].pc = "idle"
    /\ ops < MaxOps
    /\ \E est \in 0..MaxCost, m \in LedgerModels :
         tk' = [tk EXCEPT ![t] = PreCheckFrame(est, m)]
    /\ ops' = ops + 1
    /\ UNCHANGED <<trackerVars, burst, ic, traceVars, orchVars, collector, registry>>

\* tracker.record_call(input_tokens, output_tokens, model, cost_usd, duration_ms)
LedgerCallRecord(t) ==
    /\ tk[t].pc = "idle"
    /\ ops < MaxOps
    /\ \E cost \in LedgerCosts :
         tk' = [tk EXCEPT ![t] = RecordCallFrame(10, 5, "gpt-4o", cost, 100)]
    /\ ops' = ops + 1
    /\ UNCHANGED <<trackerVars, burst, ic, traceVars, orchVars, collector, registry>>

\* The method has returned or raised to the caller, who goes on.
LedgerReturn(t) ==
    /\ tk[t].pc = "returned"
    /\ tk' = [tk EXCEPT ![t] = IdleFrame]
    /\ UNCHANGED <<trackerVars, outside>>

LedgerNext ==
    \E t \in Threads :
        \/ LedgerCallPreCheck(t)
        \/ LedgerCallRecord(t)
        \/ PreCheckStep(t)
        \/ RecordCallStep(t)
        \/ ReleaseLock(t)
        \/ LedgerReturn(t)

SpecLedger == LedgerInit /\ [][LedgerNext]_vars

\* --------------------------- a burst of commits (test_thread_safety_concurrent_records)
\* NThreads threads, each committing CallsPerThread calls of one cost, no turn limit.
BurstCeilings == {MaxCost, NThreads * CallsPerThread * MaxCost + 1}

BurstInit ==
    /\ \E mu \in BurstCeilings : TrackerInit(mu, NoLimit)
    /\ tk = [t \in Threads |-> IdleFrame]
    /\ ops = 0
    /\ \E c \in 1..MaxCost : burst = [cost |-> c, done |-> [t \in Threads |-> 0]]
    /\ NoInterception
    /\ NoOrchestration
    /\ collector = NewCollector
    /\ registry = NewRegistry

\* make_calls: tracker.record_call(10, 5, "gpt-4o", C, 10.0)
BurstCall(t) ==
    /\ tk[t].pc = "idle"
    /\ burst.done[t] < CallsPerThread
    /\ tk' = [tk EXCEPT ![t] = RecordCallFrame(10, 5, "gpt-4o", burst.cost, 10)]
    /\ burst' = [burst EXCEPT !.done[t] = @ + 1]
    /\ UNCHANGED <<trackerVars, ops, ic, traceVars, orchVars, collector, registry>>

BurstNext ==
    \E t \in Threads :
        \/ BurstCall(t)
        \/ RecordCallStep(t)
        \/ ReleaseLock(t)
        \/ LedgerReturn(t)

SpecBurst == BurstInit /\ [][BurstNext]_vars

\* Every thread of the burst has made all its calls and is back from the last.
BurstDone ==
    \A t \in Threads : burst.done[t] = CallsPerThread /\ tk[t].pc = "idle"

\* ------------------------------ commits and readers on several threads
ReaderInit ==
    /\ \E mu \in {MaxCost - 1, 2 * MaxCost + 1}, mt \in {NoLimit, 1} : TrackerInit(mu, mt)
    /\ tk = [t \in Threads |-> IdleFrame]
    /\ ops = 0
    /\ burst = NoBurst
    /\ NoInterception
    /\ NoOrchestration
    /\ collector = NewCollector
    /\ registry = NewRegistry

\* tracker.record_call(10, 5, "gpt-4o", cost, 100.0)
ReaderCommit(t) ==
    /\ tk[t].pc = "idle"
    /\ ops < MaxReaderOps
    /\ \E cost \in 1..MaxCost :
         tk' = [tk EXCEPT ![t] = RecordCallFrame(10, 5, "gpt-4o", cost, 100)]
    /\ ops' = ops + 1
    /\ UNCHANGED <<trackerVars, burst, ic, traceVars, orchVars, collector, registry>>

\* tracker.spent_usd, .remaining_usd, .turn_count, .is_exceeded, .get_summary()
ReaderRead(t) ==
    /\ tk[t].pc \in {"idle", "returned"}
    /\ ops < MaxReaderOps
    /\ \E fn \in Readers :
         tk' = [tk EXCEPT ![t] = [IdleFrame EXCEPT !.pc = "read", !.fn = fn]]
    /\ ops' = ops + 1
    /\ UNCHANGED <<trackerVars, burst, ic, traceVars, orchVars, collector, registry>>

ReaderNext ==
    \E t \in Threads :
        \/ ReaderCommit(t)
        \/ ReaderRead(t)
        \/ ReadAcquire(t)
        \/ ReadEvaluate(t)
        \/ RecordCallStep(t)
        \/ ReleaseLock(t)
        \/ LedgerReturn(t)

SpecReaders == ReaderInit /\ [][ReaderNext]_vars

\* ------------------------------------------- a collector used on its own
\* Contents a preview is taken from: None, "", and strings around the limit.
PreviewContents ==
    {NoValue} \cup {Str(n) : n \in {0} \cup (MAX_PREVIEW_LENGTH .. MAX_PREVIEW_LENGTH + MaxExcess)}

CollectorInit ==
    /\ TrackerInit(0, NoLimit)
    /\ tk = [t \in Threads |-> IdleFrame]
    /\ ops = 0
    /\ burst = NoBurst
    /\ NoInterception
    /\ NoOrchestration
    /\ collector = NewCollector
    /\ registry = NewRegistry

\* The call made on the collector: the clock moves, and what was called with
\* what, and what came back, is kept.
CollectorCall(c, op, arg, ret) ==
    /\ collector.now < MaxCollectorCalls
    /\ collector' = [c EXCEPT !.now = @ + 1,
                              !.call = [op |-> op, arg |-> arg, ret |-> ret]]
    /\ UNCHANGED <<trackerVars, tk, ops, burst, ic, traceVars, orchVars, registry>>

\* collector.start_trace(run_id)
CollectorStartTrace ==
    \E run_id \in {"run-1", "run-2"} :
        CollectorCall(TraceCollector_start_trace(collector, run_id), "start_trace", run_id,
                      Len(collector.traces) + 1)

\* collector.add_span(Span(input_preview=..., output_preview=...))
CollectorAddSpan ==
    \E content \in PreviewContents, field \in {"input_preview", "output_preview"} :
        LET span == IF field = "input_preview"
                    THEN PreviewSpan(collector.now, content, NoValue)
                    ELSE PreviewSpan(collector.now, NoValue, content)
        IN CollectorCall(TraceCollector_add_span(collector, span), "add_span",
                         [span |-> span, from |-> field, content |-> content], NoValue)

\* The span an intercepted call opens before it calls the wrapped operation:
\* input_preview=messages[0].get("content", "")[:200] if messages else None
\* (content = NoValue stands for no messages); no output_preview yet.
InterceptedSpan(span_id, message_content) ==
    PreviewSpan(span_id, Slice(message_content, 200), NoValue)

\* The assignments an intercepted call makes to its span once the response is
\* there. pricing.estimate_call_cost comes first: for a model without a price it
\* raises and the `except Exception: pass` around the commit leaves the span as
\* it was opened. Only _intercept_call and _intercept_call_async go on to
\* span.output_preview = content[:200] if content else None.
SpanCompleted(span, path, model, response_content) ==
    IF ~Priced(model) THEN span
    ELSE [span EXCEPT !.status = "ok",
                      !.stamped = TRUE,
                      !.output_preview =
                          IF path \in {"sync", "async"}
                          THEN IF response_content # NoValue /\ StrLen(response_content) > 0
                               THEN Slice(response_content, 200) ELSE NoValue
                          ELSE @]

\* An intercepted call up to the call of the wrapped operation: its span is built
\* from the messages and added, unfinished, to the collector; the call is then in
\* flight, holding the Span object.
CollectorInterceptedCall ==
    /\ Cardinality(collector.in_flight) < MaxInFlight
    /\ \E content \in PreviewContents, path \in Paths, model \in IcModels :
         LET span == InterceptedSpan(collector.now, content)
             added == TraceCollector_add_span(collector, span)
         IN CollectorCall([added EXCEPT !.in_flight =
                                     @ \cup {[span |-> span, path |-> path, model |-> model]}],
                          "intercepted",
                          [span |-> span, from |-> "input_preview", content |-> content,
                           path |-> path, model |-> model], NoValue)

\* The collector after a call in flight has assigned to its Span object: the
\* object is the one a trace holds, ended or not, wherever it stands in the
\* list; and the call is over.
SpanAssigned(c, call, span) ==
    [c EXCEPT !.traces =
                 [i \in DOMAIN c.traces |->
                    [c.traces[i] EXCEPT !.spans =
                        [k \in DOMAIN @ |-> IF @[k].span_id = span.span_id
                                            THEN span ELSE @[k]]]],
              !.in_flight = @ \ {call}]

\* The wrapped operation of a call in flight returns: the span is completed from
\* the response, where it is.
CollectorCallReturns ==
    \E call \in collector.in_flight, content \in PreviewContents :
        LET span == SpanCompleted(call.span, call.path, call.model, content)
        IN CollectorCall(SpanAssigned(collector, call, span), "completed",
                         [span |-> span, from |-> "output_preview", content |-> content,
                          path |-> call.path, model |-> call.model], NoValue)

\* The wrapped operation of a call in flight raises: `except Exception:` marks
\* the span, where it is, and re-raises; a BaseException passes the clause by.
CollectorCallRaises ==
    \E call \in collector.in_flight, exc \in OpFailures :
        LET span == IF CaughtByExceptException(exc) THEN SpanError(call.span)
                    ELSE call.span
        IN CollectorCall(SpanAssigned(collector, call, span), "failed",
                         [span |-> span, exc |-> exc,
                          path |-> call.path, model |-> call.model], NoValue)

\* collector.end_trace()
CollectorEndTrace ==
    CollectorCall(TraceCollector_end_trace(collector), "end_trace", NoValue,
                  collector._current_trace)

CollectorNext ==
    \/ CollectorStartTrace
    \/ CollectorAddSpan
    \/ CollectorInterceptedCall
    \/ CollectorCallReturns
    \/ CollectorCallRaises
    \/ CollectorEndTrace

SpecCollector == CollectorInit /\ [][CollectorNext]_vars

\* --------------------------------------------- a registry used on its own
\* Model names as callers write them: bundled names, alias keys, names that the
\* alias table has only in another case, names nobody knows.
PricingModels ==
    {"gpt-4o", "gpt4o", " GPT4o ", "gpt-4o-mini", "GPT-4o-mini", "claude-3-opus",
     "my-own-model", " My-Own-Model "}

PricingInit ==
    /\ TrackerInit(0, NoLimit)
    /\ tk = [t \in Threads |-> IdleFrame]
    /\ ops = 0
    /\ burst = NoBurst
    /\ NoInterception
    /\ NoOrchestration
    /\ collector = NewCollector
    /\ registry = NewRegistry

\* The call made on the registry is kept, with what it returned or raised.
PricingCall(custom, call) ==
    /\ registry.calls < MaxPricingCalls
    /\ registry' = [_custom_models |-> custom, calls |-> registry.calls + 1,
                    call |-> call]
    /\ UNCHANGED <<trackerVars, tk, ops, burst, ic, traceVars, orchVars, collector>>

\* registry.register_custom_model(model, input_cost, output_cost)
PricingRegister ==
    \E model \in PricingModels, cost \in {<<1000, 2000>>, <<3000000, 0>>} :
        PricingCall(register_custom_model(registry._custom_models, model,
                                          cost[1], cost[2]),
                    [op |-> "register_custom_model", model |-> model,
                     input_cost |-> cost[1], output_cost |-> cost[2]])

\* registry.get_input_cost(model), registry.get_output_cost(model)
PricingLookup ==
    \E model \in PricingModels, k \in {1, 2} :
        PricingCall(registry._custom_models,
                    [op |-> "get_cost", model |-> model, k |-> k,
                     result |-> PricingRegistry_get_cost(registry._custom_models,
                                                         model, k)])

\* registry.estimate_call_cost(model, input_tokens, output_tokens)
PricingEstimate ==
    \E model \in PricingModels, it \in 0..MaxEstimateTokens, ot \in 0..MaxEstimateTokens :
        PricingCall(registry._custom_models,
                    [op |-> "estimate_call_cost", model |-> model,
                     input_tokens |-> it, output_tokens |-> ot,
                     result |-> PricingRegistry_estimate_call_cost(
                                    registry._custom_models, model, it, ot)])

PricingNext ==
    \/ PricingRegister
    \/ PricingLookup
    \/ PricingEstimate

SpecPricing == PricingInit /\ [][PricingNext]_vars

\* ------------------------ intercepted calls of one run, on several threads
Init ==
    /\ \E mu \in IcCeilings, mt \in IcTurnLimits : TrackerInit(mu, mt)
    /\ tk = [t \in Threads |-> IdleFrame]
    /\ ops = 0
    /\ burst = NoBurst
    /\ ic = [t \in Threads |-> IdleCall]
    /\ spans = <<>>
    /\ current_trace = "active"
    /\ NoOrchestration
    /\ collector = NewCollector
    /\ registry = NewRegistry

Next ==
    \E t \in Threads :
        \/ IcBegin(t)
        \/ PreCheckStep(t)
        \/ IcReject(t)
        \/ IcAdmit(t)
        \/ AddSpanRead(t)
        \/ AddSpanAppend(t)
        \/ IcOpRaises(t)
        \/ IcOpReturns(t)
        \/ RecordCallStep(t)
        \/ ReleaseLock(t)
        \/ IcAfterCommit(t)

Spec == Init /\ [][Next]_vars

\* ------------- intercepted calls of one run that outlive the wrapped function
\* _run_with_budget, finally: the wrapped function is over (its threads or tasks
\* may still be inside an intercepted call), trace_collector.end_trace() takes the
\* trace off the collector and the trace is handed to the exporter. The Trace
\* object keeps its spans.
IcRunEnds ==
    /\ current_trace = "active"
    /\ current_trace' = "none"
    /\ UNCHANGED <<trackerVars, tk, ops, burst, ic, spans, orchVars, collector, registry>>

LateCeilings == {50000}

LateInit ==
    /\ \E mu \in LateCeilings : TrackerInit(mu, NoLimit)
    /\ tk = [t \in Threads |-> IdleFrame]
    /\ ops = 0
    /\ burst = NoBurst
    /\ ic = [t \in Threads |-> IdleCall]
    /\ spans = <<>>
    /\ current_trace = "active"
    /\ NoOrchestration
    /\ collector = NewCollector
    /\ registry = NewRegistry

LateNext == Next \/ IcRunEnds

SpecLate == LateInit /\ [][LateNext]_vars

\* ------------------------ manually tracked calls of one run, on several threads
TrackCeilings == {0, 20000, 100000}

TrackInit ==
    /\ \E mu \in TrackCeilings, mt \in IcTurnLimits : TrackerInit(mu, mt)
    /\ tk = [t \in Threads |-> IdleFrame]
    /\ ops = 0
    /\ burst = NoBurst
    /\ ic = [t \in Threads |-> IdleCall]
    /\ spans = <<>>
    /\ current_trace = "active"
    /\ NoOrchestration
    /\ collector = NewCollector
    /\ registry = NewRegistry

TrackNext ==
    \E t \in Threads :
        \/ TrackBegin(t)
        \/ PreCheckStep(t)
        \/ TrackAfterPreCheck(t)
        \/ RecordCallStep(t)
        \/ ReleaseLock(t)
        \/ TrackAfterRecord(t)
        \/ AddSpanRead(t)
        \/ AddSpanAppend(t)

SpecTrack == TrackInit /\ [][TrackNext]_vars

\* --------------- intercepted and manually tracked calls of one run, together
\* The ceiling is what one call can cost, so that a run can use it up.
MixedCeilings == {estimate_call_cost("gpt-4o", 1, 4)}

MixedInit ==
    /\ \E mu \in MixedCeilings, mt \in IcTurnLimits : TrackerInit(mu, mt)
    /\ tk = [t \in Threads |-> IdleFrame]
    /\ ops = 0
    /\ burst = NoBurst
    /\ ic = [t \in Threads |-> IdleCall]
    /\ spans = <<>>
    /\ current_trace = "active"
    /\ NoOrchestration
    /\ collector = NewCollector
    /\ registry = NewRegistry

MixedNext ==
    \/ Next
    \/ \E t \in Threads :
          \/ TrackBegin(t)
          \/ TrackAfterPreCheck(t)
          \/ TrackAfterRecord(t)

SpecMixed == MixedInit /\ [][MixedNext]_vars

\* --------------------------------- protected runs, on several threads of a process
\* What the installed libraries offer to patch: nothing, litellm, litellm and
\* openai, and these with crewai.
Installations ==
    { {},
      {"litellm.completion", "litellm.acompletion"},
      {"litellm.completion", "litellm.acompletion"} \cup OpenaiHooks,
      {"litellm.completion", "litellm.acompletion"} \cup OpenaiHooks \cup CrewaiHooks }

\* The begin of a process: no run yet, the hook points hold the library's own
\* functions.
RunInitWith(installations) ==
    /\ TrackerInit(0, NoLimit)
    /\ tk = [t \in Threads |-> IdleFrame]
    /\ ops = 0
    /\ burst = NoBurst
    /\ NoInterception
    /\ present \in installations
    /\ hook = [h \in HookPoints |-> LibraryFunction]
    /\ interceptor = [r \in Runs |-> NoInterceptor]
    /\ run = [r \in Runs |-> IdleRun]
    /\ runs_started = 0
    /\ collector = NewCollector
    /\ registry = NewRegistry

\* Runs under every policy, where at most one hook point is there to patch.
RunInstallations == {{}, {"litellm.completion"}}
RunInit == RunInitWith(RunInstallations)

Teardown(r) == RunDeactivate(r) \/ RunRestore(r) \/ RunEndTrace(r) \/ RunExport(r)

RunNext ==
    \E r \in Runs :
        \/ RunBegin(r)
        \/ RunBeginFails(r)
        \/ RunActivate(r)
        \/ RunPatch(r)
        \/ RunActivated(r)
        \/ RunActivateFails(r)
        \/ RunWorkEnds(r)
        \/ RunDeactivate(r)
        \/ RunRestore(r)
        \/ RunEndTrace(r)
        \/ RunExport(r)

SpecRun == RunInit /\ [][RunNext]_vars

\* Runs under one policy whose wrapped function returns, over every installation:
\* the hook points as activate() and deactivate() on several threads leave them.
HooksInit == RunInitWith(Installations)

HooksNext ==
    \E r \in Runs :
        \/ RunBeginWith(r, {"raise"}, {"none"})
        \/ RunBeginFails(r)
        \/ RunActivate(r)
        \/ RunPatch(r)
        \/ RunActivated(r)
        \/ RunActivateFails(r)
        \/ RunWorkEndsWith(r, {RunReturned})
        \/ RunDeactivate(r)
        \/ RunRestore(r)
        \/ RunEndTrace(r)
        \/ RunExport(r)

SpecHooks == HooksInit /\ [][HooksNext]_vars

\* The same runs together with the metered calls their wrapped functions make,
\* where one hook point is there to patch: one whose wrapper sees the response,
\* one whose synchronous wrapper gets a coroutine, one deactivate() never puts
\* back.
CallInstallations ==
    {{"litellm.completion"}, {"litellm.acompletion"}, {"crewai._call_completions"}}
RunCallsInit == RunInitWith(CallInstallations)

RunCallsNext ==
    \/ HooksNext
    \/ \E r \in Runs :
          \/ RunCallEnter(r)
          \/ RunCallPreCheck(r)
          \/ RunCallAddSpan(r)
          \/ RunCallSpanRead(r)
          \/ RunCallSpanAppend(r)
          \/ RunCallLibrary(r)
          \/ RunCallUnwind(r)
          \/ RunCallCommit(r)
          \/ RunCallEscapes(r)

SpecRunCalls == RunCallsInit /\ [][RunCallsNext]_vars

\* The thread inside a finally block goes on running it.
SpecRunFair == SpecRun /\ \A r \in Runs : WF_vars(Teardown(r))

\* ------------------------------------------------------------------ claims

\* C1: pre_check raises BudgetExceededError if and only if spent_usd + estimate
\* >= max_usd, and the error carries the run id, the ceiling, the projected spend
\* and the model passed in. Looked at while the raise (or the normal exit) is still
\* inside the locked region, where spent_usd is the value pre_check compared.
C1_PreCheckRaisesIffProjectedReachesCeiling ==
    \A t \in Threads :
        (tk[t].fn = "pre_check" /\ tk[t].pc = "exit") =>
            /\ tk[t].exc.type \in {"none", "BudgetExceededError"}
            /\ (tk[t].exc.type = "BudgetExceededError")
                   <=> (spent_usd + tk[t].est >= max_usd)
            /\ (tk[t].exc.type = "BudgetExceededError") =>
                   tk[t].exc = [type |-> "BudgetExceededError", run_id |-> RunId,
                                budget_usd |-> max_usd,
                                spent_usd |-> spent_usd + tk[t].est,
                                last_model |-> tk[t].model]

\* C1 witness: money has been spent and an estimate exactly equal to what remains
\* is rejected.
C1_Witness ==
    \E t \in Threads :
        /\ tk[t].fn = "pre_check" /\ tk[t].pc = "exit"
        /\ spent_usd > 0 /\ tk[t].est > 0
        /\ spent_usd + tk[t].est = max_usd
        /\ tk[t].exc.type = "BudgetExceededError"

\* C3: a reader never sees spent_usd above max_usd (readers take the lock), and a
\* record_call that overshoots the ceiling is not rejected for its cost: it
\* commits (turn counted, record appended) and leaves spent_usd at exactly max_usd.
C3_SpentClampedToCeiling ==
    /\ lock = Free => spent_usd <= max_usd
    /\ \A t \in Threads :
        (tk[t].fn = "record_call" /\ tk[t].pc = "exit") =>
            /\ tk[t].exc.type \in {"none", "TurnLimitError"}
            /\ tk[t].exc.type = "TurnLimitError" =>
                   TurnLimitReached(max_turns, turn_count)
            /\ tk[t].exc.type = "none" =>
                   /\ spent_usd = Min(max_usd, tk[t].ld_spent + tk[t].cost)
                   /\ turn_count = tk[t].ld_turn + 1
                   /\ calls # <<>>
                   /\ calls[Len(calls)] = CallRecord(tk[t].it, tk[t].ot, tk[t].model,
                                                     tk[t].cost, tk[t].dur)

\* C3 witness: a commit whose cost overshoots the ceiling has gone through.
C3_Witness ==
    \E t \in Threads :
        /\ tk[t].fn = "record_call" /\ tk[t].pc = "exit" /\ tk[t].exc = NoError
        /\ tk[t].ld_spent > 0
        /\ tk[t].ld_spent + tk[t].cost > max_usd
        /\ spent_usd = max_usd
        /\ turn_count = 2

\* C4: after N threads have each committed K calls of cost C, spent_usd is
\* min(N*K*C, max_usd), turn_count is N*K and there are N*K records; and whenever
\* the lock is free the ledger is whole: one record per turn, and a spend equal to
\* the clamped sum of the recorded costs.
C4_BurstLosesNoUpdate ==
    /\ BurstDone =>
        /\ spent_usd = Min(NThreads * CallsPerThread * burst.cost, max_usd)
        /\ turn_count = NThreads * CallsPerThread
        /\ Len(calls) = NThreads * CallsPerThread
    /\ lock = Free =>
        /\ turn_count = Len(calls)
        /\ spent_usd = Min(max_usd, SumCost(calls))

\* C4 witness: the whole burst is in, under the ceiling, every call counted.
C4_Witness ==
    /\ BurstDone
    /\ burst.cost > 0
    /\ spent_usd = NThreads * CallsPerThread * burst.cost
    /\ spent_usd < max_usd

\* Thread t takes this step (each step of the model is one thread's).
Moves(t) == tk'[t] # tk[t] \/ ic'[t] # ic[t]

\* The pre-check of t's current call has raised.
Rejected(t) ==
    \/ ic[t].prechecked = "raised"
    \/ ic[t].pc = "pre_check" /\ tk[t].fn = "pre_check" /\ tk[t].exc # NoError

\* C2, about one call in one state: an invocation and a span only come after a
\* pre-check that passed, and a call whose pre-check raised ends there, with the
\* BudgetExceededError as its outcome, nothing invoked, no span, no commit begun.
C2_State(t) ==
    /\ ic[t].invoked => ic[t].prechecked = "passed"
    /\ ic[t].span # 0 => ic[t].prechecked = "passed"
    /\ Rejected(t) =>
        /\ ~ic[t].invoked
        /\ ic[t].span = 0
        /\ ic[t].cost_usd = Unset
        /\ tk[t].fn # "record_call"
    /\ ic[t].prechecked = "raised" =>
        /\ ic[t].pc = "done"
        /\ ic[t].outcome.kind = "raised"
        /\ ic[t].outcome.exc.type = "BudgetExceededError"
        /\ ic[t].outcome.exc.spent_usd >= max_usd

\* C2: if pre_check raises, the BudgetExceededError is what the caller gets, the
\* wrapped operation is never invoked, no span is added, and no step of the call
\* from the raise on changes spent_usd, turn_count, the call records or the spans;
\* and in every admitted call the invocation comes after a passed pre-check.
C2_RejectedCallDoesNothing ==
    [][\A t \in Threads :
           /\ C2_State(t)'
           /\ (Moves(t) /\ Rejected(t)') =>
                  UNCHANGED <<spent_usd, turn_count, calls, spans>>]_vars

\* C2 witness: one call has been admitted, invoked and committed, and a later one
\* was rejected by its pre-check.
C2_Witness ==
    \E t \in Threads :
        /\ ic[t].pc = "done"
        /\ ic[t].prechecked = "raised"
        /\ ic[t].outcome.kind = "raised"
        /\ spent_usd > 0
        /\ Len(calls) = 1
        /\ Len(spans) = 1

\* The threads whose last call went through and was committed.
Committed ==
    {t \in Threads : /\ ic[t].pc = "done"
                     /\ ic[t].outcome.kind = "returned"
                     /\ ic[t].cost_usd # Unset
                     /\ ic[t].commit_exc = NoError}

\* C5 as claimed: when every committed call cost exactly the estimate it was
\* pre-checked with, the costs of the call records add up to less than max_usd.
\* (Stated over the states in which every record is the commit of a call whose
\* locals are still there to compare.)
C5_AdmissionRaceFree ==
    ( /\ Len(calls) > 0
      /\ Len(calls) = Cardinality(Committed)
      /\ \A t \in Committed : ic[t].cost_usd = ic[t].est )
        => SumCost(calls) < max_usd

\* C6 as claimed: when the wrapped operation raises, the caller gets that
\* exception, the call's span has status "error" and a stamped duration, and the
\* call commits nothing to the ledger.
C6_FailedCallIsErrorSpan ==
    \A t \in Threads :
        (ic[t].pc = "done" /\ ic[t].invoked /\ ic[t].outcome.kind = "raised") =>
            /\ ic[t].outcome.exc \in OpFailures
            /\ ic[t].cost_usd = Unset
            /\ tk[t].pc = "idle"
            /\ ic[t].span # 0 =>
                   /\ spans[ic[t].span].status = "error"
                   /\ spans[ic[t].span].stamped

\* C7 as claimed: what record_call raises in the commit step is what the caller of
\* the intercepted call gets.
C7_CommitErrorPropagates ==
    \A t \in Threads :
        (ic[t].pc = "done" /\ ic[t].commit_exc # NoError) =>
            ic[t].outcome = Raised(ic[t].commit_exc)

\* C8 as claimed, for the calls whose commit the turn limit did not refuse: a call
\* whose invocation returned has computed its actual cost and committed it (a call
\* record with that cost and those tokens), and its span is "ok" with the same
\* tokens and cost - whatever model it named.
C8_SuccessfulCallIsCommitted ==
    \A t \in Threads :
        ( /\ ic[t].pc = "done"
          /\ ic[t].outcome.kind = "returned"
          /\ ic[t].commit_exc = NoError ) =>
            /\ ic[t].cost_usd # Unset
            /\ turn_count >= 1
            /\ \E i \in 1..Len(calls) :
                   calls[i] = CallRecord(ic[t].actual_input_tokens, ic[t].output_tokens,
                                         ic[t].model, ic[t].cost_usd, Elapsed)
            /\ ic[t].span # 0 =>
                   /\ spans[ic[t].span].status = "ok"
                   /\ spans[ic[t].span].stamped
                   /\ spans[ic[t].span].cost_usd = ic[t].cost_usd
                   /\ spans[ic[t].span].input_tokens = ic[t].actual_input_tokens
                   /\ spans[ic[t].span].output_tokens = ic[t].output_tokens

\* C9, about one run in one state: each teardown step has run at most once, none
\* before the wrapped work ended, end_trace only after deactivate, the exporter
\* only after end_trace and only with an ended trace and a policy other than
\* "none"; and a torn-down run has had deactivate and end_trace exactly once, its
\* interceptor is not active, its collector has no current trace, and its trace
\* went to the exporter exactly when the policy names an exporter other than "none".
C9_State(t) ==
    LET r == run[t] IN
    /\ r.deactivate_calls <= 1 /\ r.end_trace_calls <= 1 /\ r.export_calls <= 1
    /\ r.pc \in {"idle", "not_entered", "armed", "activating", "executing", "finally"} =>
           r.deactivate_calls = 0 /\ r.end_trace_calls = 0 /\ r.export_calls = 0
    /\ r.end_trace_calls = 1 => r.deactivate_calls = 1
    /\ r.export_calls = 1 =>
           r.end_trace_calls = 1 /\ r.trace = "ended" /\ r.trace_export # "none"
    /\ r.pc = "torn_down" =>
           /\ r.deactivate_calls = 1
           /\ r.end_trace_calls = 1
           /\ ~interceptor[t]._active
           /\ r.current_trace = "none"
           /\ r.export_calls = 1 <=>
                  (r.trace = "ended" /\ r.trace_export \in KnownExporters \ {"none"})

\* C9: the teardown of a protected run runs exactly once on every exit path of the
\* wrapped work (return, BudgetExceededError re-raised or swallowed, another
\* exception, cancellation): deactivate, then end_trace, then the export if and only
\* if there is a trace and the policy is not "none"; and once the wrapped work has
\* ended, the run eventually is torn down.
C9_TeardownExactlyOnce ==
    /\ [](\A r \in Runs : C9_State(r))
    /\ \A r \in Runs : (run[r].pc = "finally") ~> (run[r].pc = "torn_down")

\* C9 witness: a run whose wrapped work was cancelled is torn down, its trace
\* exported, while another run swallowed a BudgetExceededError and is torn down too.
C9_Witness ==
    \E t, u \in Runs :
        /\ run[t].pc = "torn_down"
        /\ run[t].result = Raised(OpCancelled)
        /\ run[t].export_calls = 1
        /\ run[u].pc = "torn_down"
        /\ run[u].result = RunReturnedNone
        /\ run[u].trace_export = "none"

\* C10 as claimed: when deactivate() has run on an active interceptor, every hook
\* point that its activate() replaced holds the callable saved at activation.
C10_DeactivateRestoresEveryHook ==
    [][\A t \in Runs :
           (interceptor[t]._active /\ ~interceptor'[t]._active) =>
               \A h \in DOMAIN interceptor[t]._originals :
                   hook'[h] = interceptor[t]._originals[h]]_vars

\* C16, about one state: with a turn limit M, turn_count never exceeds M; a commit
\* gets past the turn check only below the limit; a TurnLimitError carries the run
\* id, max_turns = M and current_turn = M + 1 and is raised with exactly M commits
\* recorded; without a limit no TurnLimitError is raised.
C16_State ==
    /\ max_turns # NoLimit => turn_count <= max_turns
    /\ \A t \in Threads :
        /\ tk[t].pc = "rc_load_spent" =>
               (max_turns = NoLimit \/ turn_count < max_turns)
        /\ tk[t].exc.type = "TurnLimitError" =>
               /\ max_turns # NoLimit
               /\ tk[t].fn = "record_call"
               /\ tk[t].exc = TurnLimitError(RunId, max_turns, max_turns + 1)
               /\ tk[t].pc = "exit" => (turn_count = max_turns /\ Len(calls) = max_turns)

\* C16: with max_turns = M, after M commits the next record_call raises
\* TurnLimitError(max_turns = M, current_turn = M + 1) and no step of it changes
\* spent_usd, turn_count or the call records; turn_count never exceeds M under any
\* interleaving; with max_turns = None no commit is rejected for its turn.
C16_TurnLimitEnforced ==
    [][/\ C16_State'
       /\ \A t \in Threads :
              (tk'[t] # tk[t] /\ tk'[t].exc.type = "TurnLimitError") =>
                  UNCHANGED <<spent_usd, turn_count, calls>>]_vars

\* C16 witness: the limit is 1, one commit is recorded, and a second record_call has
\* come back with TurnLimitError.
C16_Witness ==
    \E t \in Threads :
        /\ max_turns = 1
        /\ tk[t].pc = "returned"
        /\ tk[t].exc = TurnLimitError(RunId, 1, 2)
        /\ turn_count = 1
        /\ Len(calls) = 1

\* C17: whenever no commit is under way and the costs of the commits recorded so
\* far (all non-negative) add up to at most max_usd, spent_usd is exactly that sum
\* and turn_count is the number of commits.
C17_SpentIsSumOfCommits ==
    (lock = Free /\ SumCost(calls) <= max_usd) =>
        /\ \A i \in 1..Len(calls) : calls[i].cost_usd >= 0
        /\ spent_usd = SumCost(calls)
        /\ turn_count = Len(calls)

\* C17 witness: two commits, both with a cost, are recorded and their sum is within
\* the ceiling; every caller is back.
C17_Witness ==
    /\ lock = Free
    /\ \A t \in Threads : tk[t].pc \in {"idle", "returned"}
    /\ Len(calls) = 2
    /\ calls[1].cost_usd > 0 /\ calls[2].cost_usd > 0
    /\ SumCost(calls) <= max_usd
    /\ spent_usd = SumCost(calls)

\* C18: no step of a thread that is in pre_check, entering it or leaving it,
\* whether the check passes or raises, changes spent_usd, turn_count or the call
\* records.
C18_PreCheckMutatesNothing ==
    [][\A t \in Threads :
           (tk'[t] # tk[t] /\ (tk[t].fn = "pre_check" \/ tk'[t].fn = "pre_check")) =>
               UNCHANGED <<spent_usd, turn_count, calls>>]_vars

\* C18 witness: after a commit that cost something, a pre_check has raised and is
\* back in its caller.
C18_Witness ==
    \E t \in Threads :
        /\ tk[t].pc = "returned" /\ tk[t].fn = "pre_check" /\ tk[t].exc # NoError
        /\ spent_usd > 0
        /\ Len(calls) = 1

\* C19: record_call with a negative cost raises ValueError at once - the step that
\* takes it past the argument check ends it with ValueError, whatever the turn
\* count - and that step changes neither spent_usd, turn_count, the call records
\* nor the lock; nothing else raises ValueError.
C19_NegativeCostRejected ==
    [][\A t \in Threads :
           /\ (tk[t].pc = "record_call" /\ tk[t].cost < 0 /\ tk'[t] # tk[t]) =>
                  /\ tk'[t] = ReturnedFrame("record_call", ValueError)
                  /\ UNCHANGED <<spent_usd, turn_count, calls, lock>>
           /\ (tk'[t].exc = ValueError /\ tk[t].exc # ValueError) =>
                  (tk[t].pc = "record_call" /\ tk[t].cost < 0)]_vars

\* C19 witness: the turn limit is reached, and a record_call with a negative cost
\* has come back with ValueError.
C19_Witness ==
    \E t \in Threads :
        /\ tk[t].pc = "returned"
        /\ tk[t].fn = "record_call"
        /\ tk[t].exc = ValueError
        /\ max_turns # NoLimit
        /\ turn_count = max_turns

\* C20: spent_usd as the tracker's readers see it (they take the lock) never goes
\* down - a step lowers _spent_usd only inside a locked region (the clamp), and not
\* below the value the region started from - and the call records change only by
\* one record being appended.
C20_SpentMonotoneRecordsAppendOnly ==
    [][/\ \/ spent_usd' >= spent_usd
          \/ \E t \in Threads :
                 /\ lock = t /\ lock' = t
                 /\ tk[t].pc = "rc_clamp"
                 /\ spent_usd' >= tk[t].ld_spent
       /\ (lock = Free /\ lock' # Free) => spent_usd' = spent_usd
       /\ \A t \in Threads :
              (lock = t /\ tk[t].pc \in {"rc_store_spent", "rc_load_turn",
                                          "rc_store_turn", "rc_clamp"}) =>
                  (tk[t].ld_spent <= spent_usd \/ tk[t].pc = "rc_store_spent")
       /\ \/ calls' = calls
          \/ /\ Len(calls') = Len(calls) + 1
             /\ SubSeq(calls', 1, Len(calls)) = calls]_vars

\* C20 witness: a commit that overshot the ceiling has been clamped, after an
\* earlier commit: two records, spent_usd at the ceiling, below their sum.
C20_Witness ==
    /\ lock = Free
    /\ Len(calls) = 2
    /\ spent_usd = max_usd
    /\ SumCost(calls) > max_usd
    /\ calls[1].cost_usd > 0

\* C12 as claimed: an interceptor becomes active, and a hook point is replaced by
\* activate(), only while no interceptor of the process is active.
C12_OneActiveInterceptor ==
    [][\A t \in Runs :
           (~interceptor[t]._active /\ interceptor'[t]._active) =>
               \A u \in Runs : ~interceptor[u]._active]_vars

\* C11 as claimed: when activate() failed partway in a protected run, the
\* deactivate() of the run's teardown leaves every hook point that activate() had
\* replaced holding the callable saved for it.
C11_TeardownRestoresPartialActivation ==
    [][\A t \in Runs :
           ( /\ run[t].pc = "finally"
             /\ run'[t].pc = "deactivated"
             /\ run[t].exit = Raised(PatchError) ) =>
               \A h \in DOMAIN interceptor[t]._originals :
                   hook'[h] = interceptor[t]._originals[h]]_vars

\* C13 as claimed: a metered call made by the wrapped work of one run is admitted
\* or refused by that run's budget alone, is charged to and traced in that run
\* when admitted, and leaves the spent_usd, turn_count and spans of every other
\* run whose work is executing as they were.
C13_ConcurrentRunsIsolated ==
    [][\A t \in Runs :
           (run'[t].call # run[t].call) =>
               /\ \A u \in Runs \ {t} :
                      run[u].pc = "executing" =>
                          /\ run'[u].spent_usd = run[u].spent_usd
                          /\ run'[u].turn_count = run[u].turn_count
                          /\ run'[u].n_spans = run[u].n_spans
               /\ run'[t].call.raised.type = "BudgetExceededError" =>
                      run'[t].call.by = t]_vars

\* Whether the finally block of run t raised on its own account.
TeardownRaised(t) ==
    /\ run[t].pc = "torn_down"
    /\ ExportDue(run[t].trace, run[t].trace_export)
    /\ run[t].trace_export \notin KnownExporters

\* C14: in a protected run whose wrapped work has ended, what leaves the try
\* statement is the work's result after a normal return, the BudgetExceededError
\* itself under on_exceed = "raise", None under on_exceed = "return_none", and any
\* other exception (TurnLimitError, cancellation) unchanged under either policy;
\* and that is what the caller gets from every run whose teardown raised nothing.
C14_OnExceedPolicy ==
    \A t \in Runs :
        run[t].exit # NoOutcome =>
            LET e == run[t].exit
                budget == e.kind = "raised" /\ e.exc.type = "BudgetExceededError"
            IN /\ (e.kind = "returned") => run[t].pending = e
               /\ (budget /\ run[t].on_exceed = "raise") => run[t].pending = e
               /\ (budget /\ run[t].on_exceed = "return_none") =>
                      run[t].pending = RunReturnedNone
               /\ (e.kind = "raised" /\ ~budget) => run[t].pending = e
               /\ (run[t].pc = "torn_down" /\ ~TeardownRaised(t)) =>
                      run[t].result = run[t].pending

\* C14 witness: two runs under on_exceed = "return_none" are torn down: one whose
\* work raised BudgetExceededError returned None, one whose work raised
\* TurnLimitError raised it to its caller.
C14_Witness ==
    \E t, u \in Runs :
        /\ run[t].pc = "torn_down" /\ run[t].on_exceed = "return_none"
        /\ run[t].exit = WorkBudgetExceeded /\ run[t].result = RunReturnedNone
        /\ run[u].pc = "torn_down" /\ run[u].on_exceed = "return_none"
        /\ run[u].exit = WorkTurnLimit /\ run[u].result = WorkTurnLimit

\* C15 as claimed: whatever happens in the export step of the teardown, the caller
\* of a run gets what left the try statement: the work's return value, None for a
\* swallowed BudgetExceededError, or the exception the work raised.
C15_ExportFailureSwallowed ==
    \A t \in Runs :
        run[t].pc = "torn_down" => run[t].result = run[t].pending

\* C21: remaining_usd is max(0, max_usd - spent_usd) and never negative, and
\* is_exceeded is true exactly when spent_usd >= max_usd: in every state of the
\* tracker, and for the value each of the two readers hands back, against the
\* state it read under the lock.
C21_RemainingAndExceeded ==
    /\ remaining_usd >= 0
    /\ remaining_usd >= max_usd - spent_usd
    /\ remaining_usd \in {0, max_usd - spent_usd}
    /\ is_exceeded <=> spent_usd >= max_usd
    /\ \A t \in Threads :
         tk[t].pc = "exit" =>
           /\ tk[t].fn = "remaining_usd" =>
                 /\ tk[t].ret.value >= 0
                 /\ tk[t].ret.value >= max_usd - spent_usd
                 /\ tk[t].ret.value \in {0, max_usd - spent_usd}
           /\ tk[t].fn = "is_exceeded" =>
                 (tk[t].ret.value <=> spent_usd >= max_usd)

\* A commit overshot the ceiling; one reader was handed remaining_usd = 0 and
\* the other is_exceeded = True.
C21_Witness ==
    /\ SumCost(calls) > max_usd
    /\ \E t, u \in Threads :
         /\ tk[t].pc = "returned" /\ tk[t].fn = "remaining_usd"
         /\ tk[t].ret = Value(0)
         /\ tk[u].pc = "exit" /\ tk[u].fn = "is_exceeded"
         /\ tk[u].ret = Value(TRUE)
\* C22: every summary get_summary() hands back, whatever commits run beside it,
\* is one state of the tracker between two commits: its turn_count is the number
\* of call records it lists, its remaining_usd is max(0, budget_usd - spent_usd),
\* its spent_usd is the (clamped) sum of the costs of exactly the records it
\* lists, and those records are the first ones of the ledger.
C22_SummaryIsSnapshot ==
    \A t \in Threads :
        (tk[t].fn = "get_summary" /\ tk[t].pc \in {"exit", "returned"}) =>
            LET s == tk[t].ret.value
            IN /\ s.run_id = RunId
               /\ s.budget_usd = max_usd
               /\ s.turn_count = Len(s.calls)
               /\ s.remaining_usd >= 0
               /\ s.remaining_usd >= s.budget_usd - s.spent_usd
               /\ s.remaining_usd \in {0, s.budget_usd - s.spent_usd}
               /\ s.spent_usd = Min(SumCost(s.calls), s.budget_usd)
               /\ Len(s.calls) <= Len(calls)
               /\ s.calls = SubSeq(calls, 1, Len(s.calls))

\* A summary listing one committed call was taken while another thread's commit
\* was waiting for the lock the reader holds.
C22_Witness ==
    \E t, u \in Threads :
        /\ tk[t].fn = "get_summary" /\ tk[t].pc = "exit"
        /\ tk[t].ret.value.turn_count = 1
        /\ tk[t].ret.value.spent_usd > 0
        /\ tk[u].pc = "rc_acquire"
\* C23: the tracker's lock is held only inside pre_check, record_call and the
\* readers, between entering and leaving their with block, and is released on
\* every way out of them, a raise included; so no thread holds it while its
\* wrapped operation is running or suspended, and a call that is in flight
\* leaves the lock free for the other callers.
C23_LockNotHeldAcrossCall ==
    \A t \in Threads :
        /\ lock = t =>
              tk[t].pc \in {"pre_check_locked", "rc_locked", "rc_load_spent",
                            "rc_store_spent", "rc_load_turn", "rc_store_turn",
                            "rc_clamp", "rc_append", "read_locked", "exit"}
        /\ tk[t].pc \in {"idle", "returned"} => lock # t
        /\ ic[t].pc \in {"in_flight", "done"} => lock # t
        /\ (/\ ic[t].pc = "in_flight"
            /\ \A u \in Threads \ {t} :
                  tk[u].pc \in {"idle", "returned", "pre_check", "record_call",
                                "rc_acquire", "read"})
           => lock = Free

\* One call is in flight, admitted by its pre-check, while another thread has
\* taken the lock for its own pre_check.
C23_Witness ==
    \E t, u \in Threads :
        /\ ic[t].pc = "in_flight" /\ ic[t].prechecked = "passed"
        /\ tk[u].pc = "pre_check_locked"
        /\ lock = u
\* C24: when counting the tokens fails, or the model has no price for the pre-call
\* estimate, the call is not aborted and no error of it reaches the caller: the
\* estimate is 0, pre_check is run with 0, a call pre_check admits is invoked,
\* and the only call that ends without being invoked is one pre_check refused
\* because the budget was already used up.
C24_EstimateFailureIsZero ==
    \A t \in Threads :
        (ic[t].pc # "idle" /\ (ic[t].counted = CountFails \/ ~Priced(ic[t].model))) =>
            /\ ic[t].counted = CountFails => ic[t].input_tokens = 0
            /\ ic[t].est = 0
            /\ ic[t].pc = "pre_check" =>
                  /\ tk[t].fn = "pre_check"
                  /\ tk[t].pc \in {"pre_check", "pre_check_locked"} => tk[t].est = 0
                  /\ tk[t].pc = "exit" => tk[t].projected = spent_usd
            /\ ic[t].pc \in {"in_flight", "commit"} =>
                  ic[t].prechecked = "passed" /\ ic[t].invoked
            /\ ic[t].pc = "done" =>
                  \/ ic[t].prechecked = "passed" /\ ic[t].invoked
                  \/ /\ ic[t].prechecked = "raised" /\ ~ic[t].invoked
                     /\ ic[t].outcome.kind = "raised"
                     /\ ic[t].outcome.exc.type = "BudgetExceededError"
                     /\ ic[t].outcome.exc.spent_usd >= max_usd
\* The Trace objects made so far.
TraceRefs(c) == 1..Len(c.traces)

\* The Span objects of a span list, in its order: a Span is told from the others
\* by its span_id, whatever is assigned to its other fields while its call is in
\* flight.
SpanIds(sp) == [k \in DOMAIN sp |-> sp[k].span_id]

C26_EndTraceStampsOnce ==
    [][LET c == collector
           d == collector'
       IN /\ \A i \in TraceRefs(c) :
                /\ i = c._current_trace => c.traces[i].end_time = Unset
                /\ c.traces[i].end_time # Unset =>
                      d.traces[i].end_time = c.traces[i].end_time
                /\ d.traces[i].end_time # c.traces[i].end_time =>
                      d.call.op = "end_trace" /\ i = c._current_trace
          /\ d.call.op = "start_trace" =>
                /\ d._current_trace = Len(c.traces) + 1
                /\ d.call.ret = d._current_trace
                /\ d.traces = Append(c.traces, Trace(d.call.arg))
          /\ d.call.op = "end_trace" =>
                /\ d._current_trace = 0
                /\ d.call.ret = c._current_trace
                /\ IF c._current_trace # 0
                   THEN d.traces = [c.traces EXCEPT ![c._current_trace].end_time = c.now]
                   ELSE d.traces = c.traces]_vars

\* A trace with a span was ended, and a second end_trace returned None.
C26_Witness ==
    /\ collector.call.op = "end_trace"
    /\ collector.call.ret = 0
    /\ Len(collector.traces) = 1
    /\ collector.traces[1].end_time # Unset
    /\ collector.traces[1].end_time < collector.now - 1
    /\ Len(collector.traces[1].spans) = 1

\* C27: a stored preview is at most 200 characters, or is 203 characters ending
\* in "..."; and whenever the content it was taken from is longer than 200
\* characters, be it passed to Span(...) or taken by the interceptor from the
\* messages or the response, the stored preview is its first 200 characters
\* followed by "...".
C27_PreviewTruncatedWithEllipsis ==
    /\ \A i \in TraceRefs(collector) :
         \A k \in 1..Len(collector.traces[i].spans) :
           \A f \in {"input_preview", "output_preview"} :
             LET stored == collector.traces[i].spans[k][f]
             IN \/ stored = NoValue
                \/ StrLen(stored) <= 200
                \/ StrLen(stored) = 203 /\ stored.ellipsis
    /\ collector.call.op \in {"add_span", "intercepted", "completed"} =>
         LET a == collector.call.arg
         IN (a.content # NoValue /\ StrLen(a.content) > 200) =>
                a.span[a.from] = [chars |-> 200, ellipsis |-> TRUE]
\* C28: once register_custom_model(m, i, o) was called, get_input_cost(m) returns
\* i and get_output_cost(m) returns o for that very key m, whatever m is: a
\* bundled model name and a key of the alias table included.
C28_CustomOverlayShadows ==
    registry.call.op = "get_cost" =>
        LET c == registry.call
        IN c.model \in DOMAIN registry._custom_models =>
               c.result = Value(registry._custom_models[c.model][c.k])

\* The unit costs the registry holds for a model that has them.
UnitCosts(custom, model) ==
    <<PricingRegistry_get_cost(custom, model, 1).value,
      PricingRegistry_get_cost(custom, model, 2).value>>

\* C29: for a priced model, estimate_call_cost is input unit cost * input tokens
\* / 1000 + output unit cost * output tokens / 1000: linear, 0 for no tokens,
\* and not less when either token count is one more.
C29_EstimateIsLinear ==
    registry.call.op = "estimate_call_cost" =>
        LET c == registry.call
            custom == registry._custom_models
        IN "value" \in DOMAIN PricingRegistry_get_cost(custom, c.model, 1) =>
             /\ "value" \in DOMAIN c.result
             /\ LET total == UnitCosts(custom, c.model)[1] * c.input_tokens
                                + UnitCosts(custom, c.model)[2] * c.output_tokens
                IN total % 1000 = 0 /\ c.result.value = total \div 1000
             /\ (c.input_tokens = 0 /\ c.output_tokens = 0) => c.result.value = 0
             /\ PricingRegistry_estimate_call_cost(custom, c.model, c.input_tokens + 1,
                                                   c.output_tokens).value
                    >= c.result.value
             /\ PricingRegistry_estimate_call_cost(custom, c.model, c.input_tokens,
                                                   c.output_tokens + 1).value
                    >= c.result.value

\* estimate_call_cost("gpt-4o", 2, 1) on a registry with a custom model gave
\* 2 * 2500 + 10000 nano-dollars.
C29_Witness ==
    /\ registry.call.op = "estimate_call_cost"
    /\ registry.call.model = "gpt-4o"
    /\ registry.call.input_tokens = 2
    /\ registry.call.output_tokens = 1
    /\ registry.call.result = Value(15000)
    /\ registry._custom_models # <<>>

\* C30: a unit-cost lookup takes the entry of the alias table for the lowercased,
\* trimmed name, or the name as passed when the table has none; it answers from
\* the custom overlay if that has the resolved name, else from the bundled
\* table, else it raises UnknownModelError with the model string exactly as the
\* caller passed it (so does estimate_call_cost).
C30_LookupOrder ==
    registry.call.op \in {"get_cost", "estimate_call_cost"} =>
        LET c == registry.call
            custom == registry._custom_models
            n == Normalized(c.model)
            resolved == IF n \in DOMAIN MODEL_ALIASES THEN MODEL_ALIASES[n] ELSE c.model
            known == resolved \in DOMAIN custom \cup DOMAIN BUNDLED_PRICING
        IN /\ ~known => c.result = [kind |-> "raised", exc |-> UnknownModelError(c.model)]
           /\ known => "value" \in DOMAIN c.result
           /\ (known /\ c.op = "get_cost") =>
                 c.result.value = IF resolved \in DOMAIN custom THEN custom[resolved][c.k]
                                  ELSE BUNDLED_PRICING[resolved][c.k]

\* "my-own-model" is registered, and the lookup of " My-Own-Model ", which no
\* alias covers, raised UnknownModelError carrying the name with its blanks.
C30_Witness ==
    /\ registry.call.op = "get_cost"
    /\ registry.call.model = " My-Own-Model "
    /\ "my-own-model" \in DOMAIN registry._custom_models
    /\ registry.call.result = [kind |-> "raised",
                               exc |-> UnknownModelError(" My-Own-Model ")]
\* The sum of one key over a list of dicts, a missing (None) value counted as 0.
RECURSIVE SumOfKey(_, _)
SumOfKey(ds, key) ==
    IF ds = <<>> THEN 0
    ELSE (IF ds[1][key] = Unset THEN 0 ELSE ds[1][key]) + SumOfKey(Tail(ds), key)

\* C31: total_cost, total_input_tokens and total_output_tokens of the trace are
\* the sums of cost_usd, input_tokens and output_tokens over its spans with a
\* missing value counted as zero; the totals to_dict writes are these, and are
\* the sums recomputed from the spans to_dict wrote.
C31_TotalsAreSums ==
    LET d == Trace_to_dict(spans)
    IN /\ total_cost(spans) = SumOfKey(spans, "cost_usd")
       /\ total_input_tokens(spans) = SumOfKey(spans, "input_tokens")
       /\ total_output_tokens(spans) = SumOfKey(spans, "output_tokens")
       /\ d.total_cost = total_cost(spans)
       /\ d.total_input_tokens = total_input_tokens(spans)
       /\ d.total_output_tokens = total_output_tokens(spans)
       /\ Len(d.spans) = Len(spans)
       /\ d.total_cost = SumOfKey(d.spans, "cost_usd")
       /\ d.total_input_tokens = SumOfKey(d.spans, "input_tokens")
       /\ d.total_output_tokens = SumOfKey(d.spans, "output_tokens")

\* The trace has one span with a cost and its tokens and one, of a call still in
\* flight, whose cost and output tokens are missing.
C31_Witness ==
    /\ Len(spans) = 2
    /\ \E i, j \in 1..2 :
         /\ spans[i].cost_usd > 0 /\ spans[i].output_tokens > 0
         /\ spans[j].cost_usd = Unset /\ spans[j].output_tokens = Unset
         /\ spans[j].input_tokens > 0
    /\ total_cost(spans) > 0
\* C32, about one tracked call in one state: record_call is only called after a
\* pre_check that passed on the computed cost, and with that cost and the tokens of
\* the call; the span is only there after a record_call that returned, and it is
\* "ok" with the tokens and the cost of the call; a tracked call that raised has
\* no span.
C32_State(t) ==
    ic[t].path = "track_call" =>
        /\ ic[t].pc = "track_pre_check" /\ tk[t].pc # "returned" =>
               tk[t].fn = "pre_check" /\ tk[t].est = ic[t].cost_usd
        /\ ic[t].pc = "track_record" =>
               /\ ic[t].prechecked = "passed"
               /\ tk[t].fn = "record_call"
               /\ tk[t].pc # "returned" =>
                      /\ tk[t].cost = ic[t].cost_usd
                      /\ tk[t].it = ic[t].input_tokens
                      /\ tk[t].ot = ic[t].output_tokens
        /\ ic[t].pc \in {"add_span", "add_span_append"} =>
               /\ ic[t].prechecked = "passed"
               /\ ic[t].commit_exc = NoError
               /\ tk[t].pc = "idle"
               /\ \E k \in 1..Len(calls) :
                      calls[k] = CallRecord(ic[t].input_tokens, ic[t].output_tokens,
                                            ic[t].model, ic[t].cost_usd, 0)
        /\ ic[t].span # 0 =>
               /\ ic[t].pc = "done"
               /\ ic[t].prechecked = "passed"
               /\ ic[t].commit_exc = NoError
               /\ ic[t].outcome.kind = "returned"
               /\ spans[ic[t].span] = [model |-> ic[t].model,
                                       input_tokens |-> ic[t].input_tokens,
                                       output_tokens |-> ic[t].output_tokens,
                                       cost_usd |-> ic[t].cost_usd,
                                       status |-> "ok", stamped |-> FALSE]
               /\ \E k \in 1..Len(calls) :
                      calls[k] = CallRecord(ic[t].input_tokens, ic[t].output_tokens,
                                            ic[t].model, ic[t].cost_usd, 0)
        /\ ic[t].pc = "done" /\ ic[t].outcome.kind = "raised" => ic[t].span = 0

\* C32: track_call calls pre_check with the computed cost, then record_call with
\* the same cost, then adds one span with status "ok" carrying the same tokens and
\* cost; no step of a tracked call up to and including a pre_check that raises
\* changes the ledger or the trace, a step of it adds at most the one span, and
\* when record_call raises the trace is left as it was.
C32_TrackCallSequence ==
    [][\A t \in Threads :
           /\ C32_State(t)'
           /\ (Moves(t) /\ ic'[t].path = "track_call"
                  /\ (ic'[t].pc = "track_pre_check" \/ ic'[t].prechecked = "raised")) =>
                  UNCHANGED <<spent_usd, turn_count, calls, spans>>
           /\ (Moves(t) /\ ic'[t].path = "track_call" /\ spans' # spans) =>
                  /\ ic[t].pc = "add_span_append" /\ ic'[t].pc = "done"
                  /\ ic[t].commit_exc = NoError
                  /\ Len(spans') = Len(spans) + 1
                  /\ \A k \in 1..Len(spans) : spans'[k] = spans[k]
           /\ (Moves(t) /\ ic'[t].path = "track_call" /\ ic'[t].commit_exc # NoError) =>
                  UNCHANGED spans]_vars

\* C32 witness: one tracked call went through (a record and an "ok" span with its
\* cost), one was rejected by pre_check, and the trace has the one span.
C32_Witness ==
    \E t, u \in Threads :
        /\ ic[t].path = "track_call" /\ ic[t].pc = "done" /\ ic[t].span = 1
        /\ spans[1].cost_usd = ic[t].cost_usd /\ ic[t].cost_usd > 0
        /\ ic[u].path = "track_call" /\ ic[u].pc = "done" /\ ic[u].prechecked = "raised"
        /\ Len(spans) = 1 /\ Len(calls) = 1
\* C33: a span has status "ok" only if the wrapped invocation of its call returned
\* successfully: the span of a call that is still in flight, or whose invocation
\* was interrupted or cancelled, is not "ok".
C33_OkOnlyAfterReturn ==
    \A t \in Threads :
        (ic[t].span # 0 /\ spans[ic[t].span].status = "ok") =>
            /\ ic[t].pc \in {"commit", "done"}
            /\ ic[t].pc = "done" => ic[t].outcome.kind = "returned"
\* C34: when the response of a successful call exposes no usage, the input and
\* output tokens committed and written on the span are the estimates used for
\* admission: the input tokens counted before the call, and OutputMultiplier times
\* as many output tokens.
C34_NoUsageFallsBackToEstimates ==
    \A t \in Threads :
        (/\ ic[t].path \in {"sync", "async"}
         /\ ic[t].pc \in {"commit", "done"}
         /\ ic[t].cost_usd # Unset
         /\ ic[t].usage = NoUsage) =>
            /\ ic[t].actual_input_tokens = ic[t].input_tokens
            /\ ic[t].output_tokens = ic[t].input_tokens * OutputMultiplier
            /\ ic[t].span # 0 =>
                   /\ spans[ic[t].span].input_tokens = ic[t].input_tokens
                   /\ spans[ic[t].span].output_tokens
                          = ic[t].input_tokens * OutputMultiplier
\* The synchronous path an asynchronous path is the counterpart of.
SyncTwin(path) ==
    CASE path = "async" -> "sync"
      [] path = "crewai_async" -> "crewai"
      [] OTHER -> path

\* C35: an asynchronous path accounts as its synchronous counterpart does: given
\* the same estimate and the same response, the tokens and the cost it commits and
\* writes on the span, the state of the span, and whether an error of the commit
\* is propagated or swallowed, are those of the synchronous path.
C35_AsyncAccountsAsSync ==
    \A t \in Threads :
        (/\ ic[t].path \in {"async", "crewai_async"}
         /\ ic[t].pc \in {"commit", "done"}
         /\ ic[t].cost_usd # Unset) =>
            LET twin == SyncTwin(ic[t].path)
            IN /\ \E summary \in SummariesOf(twin, ic[t].usage) :
                    LET ait == ActualInputTokens(twin, ic[t].input_tokens,
                                                 ic[t].usage, summary)
                        ot == OutputTokens(twin, ic[t].usage, summary)
                    IN /\ ic[t].actual_input_tokens = ait
                       /\ ic[t].output_tokens = ot
                       /\ ic[t].cost_usd = estimate_call_cost(ic[t].model, ait, ot)
                       /\ ic[t].span # 0 =>
                              spans[ic[t].span]
                                  = SpanOk(Span(ic[t].model, ic[t].input_tokens),
                                           ait, ot, ic[t].cost_usd)
               /\ ic[t].pc = "done" =>
                      (ic[t].outcome.kind = "raised"
                          <=> (/\ ic[t].commit_exc # NoError
                               /\ CommitPropagates(twin, ic[t].commit_exc)))
\* C36: once the trace of the run has been ended and handed to the exporter,
\* nothing changes its spans, whatever calls admitted during the run are still in
\* flight and return or fail afterwards.
C36_EndedTraceImmutable ==
    [][current_trace = "none" => spans' = spans]_vars
\* C37: in every state of the tracker between two of its locked regions (the
\* states its readers see), turn_count is the number of call records and spent_usd
\* is the smaller of max_usd and the sum of cost_usd over the call records.
C37_LedgerMatchesRecords ==
    lock = Free =>
        /\ turn_count = Len(calls)
        /\ spent_usd = Min(max_usd, SumCost(calls))
        /\ get_summary.turn_count = Len(get_summary.calls)

\* C37 witness: two commits are recorded whose costs add up to more than the
\* ceiling, so the spend stands at the ceiling; every caller is back.
C37_Witness ==
    /\ lock = Free
    /\ \A t \in Threads : tk[t].pc \in {"idle", "returned"}
    /\ Len(calls) = 2 /\ turn_count = 2
    /\ SumCost(calls) > max_usd /\ max_usd > 0
    /\ spent_usd = max_usd
\* Thread t has no call that its pre_check has let through: it is in no call, or
\* in one whose pre_check has not decided yet or has raised.
C38_NotAdmitted(t) ==
    \/ ic[t].pc \in {"idle", "done"}
    \/ /\ ic[t].pc \in {"pre_check", "track_pre_check"}
       /\ tk[t].fn = "pre_check"
       /\ \/ tk[t].pc \in {"pre_check", "pre_check_locked"}
          \/ tk[t].exc.type = "BudgetExceededError"

\* C38 as first stated: once is_exceeded is true it stays true, every
\* pre_check deciding after that on a non-negative estimate raises
\* BudgetExceededError, and no wrapped operation is invoked through the
\* interceptor, and no tracked call committed, from then on.
C38_NoInvocationAfterExhaustion ==
    [][is_exceeded =>
          /\ is_exceeded'
          /\ \A t \in Threads :
                /\ (/\ tk[t].pc = "pre_check_locked" /\ tk'[t].pc = "exit"
                    /\ tk[t].est >= 0) =>
                       tk'[t].exc.type = "BudgetExceededError"
                /\ ~(ic'[t].invoked /\ ~ic[t].invoked)
                /\ ~(/\ tk'[t].fn = "record_call" /\ tk[t].fn # "record_call"
                     /\ ic'[t].path = "track_call")
      ]_vars

\* C38: exhaustion is permanent, as amended. Once is_exceeded is true it stays true;
\* a pre_check deciding on a non-negative estimate (0 included) while it is true
\* raises BudgetExceededError; a wrapped operation is only invoked, and a tracked
\* call only committed, after a pre_check of that call that did not raise; and a
\* thread that, with the budget used up, has no call its pre_check has let through
\* never gets one, invokes nothing and commits nothing. So only a call admitted
\* before the exhaustion can still be invoked after it.
C38_ExhaustionIsPermanent ==
    [][/\ is_exceeded => is_exceeded'
       /\ \A t \in Threads :
            /\ (/\ tk[t].pc = "pre_check_locked" /\ tk'[t].pc = "exit"
                /\ is_exceeded /\ tk[t].est >= 0) =>
                   /\ tk'[t].exc.type = "BudgetExceededError"
                   /\ tk'[t].exc.budget_usd = max_usd
            /\ (tk[t].fn = "pre_check" /\ tk[t].pc = "returned"
                   /\ tk[t].exc # NoError /\ Moves(t)) =>
                   /\ ic'[t].pc = "done" /\ ~ic'[t].invoked
                   /\ ic'[t].outcome = Raised(tk[t].exc)
                   /\ tk'[t].pc = "idle"
            /\ (ic'[t].prechecked = "passed" /\ ic[t].prechecked # "passed") =>
                   tk[t].fn = "pre_check" /\ tk[t].pc = "returned" /\ tk[t].exc = NoError
            /\ (ic'[t].invoked /\ ~ic[t].invoked) => ic'[t].prechecked = "passed"
            /\ (tk'[t].fn = "record_call" /\ tk[t].fn # "record_call"
                   /\ ic'[t].path = "track_call") =>
                   tk[t].fn = "pre_check" /\ tk[t].pc = "returned" /\ tk[t].exc = NoError
            /\ (is_exceeded /\ C38_NotAdmitted(t)) =>
                   /\ C38_NotAdmitted(t)'
                   /\ ~(ic'[t].invoked /\ ~ic[t].invoked)
                   /\ ~(tk'[t].fn = "record_call" /\ tk[t].fn # "record_call")
      ]_vars

\* C38 witness: a first call was admitted on an estimate of 0 and its commit used
\* up the ceiling; a later call, again estimated at 0, was refused by pre_check and
\* never invoked.
C38_Witness ==
    /\ is_exceeded /\ max_usd > 0 /\ Len(calls) = 1
    /\ \E t \in Threads :
         /\ ic[t].pc = "done" /\ ic[t].prechecked = "raised" /\ ic[t].est = 0
         /\ ~ic[t].invoked
         /\ ic[t].outcome.kind = "raised"
         /\ ic[t].outcome.exc.type = "BudgetExceededError"
\* The number of spans that carry a cost.
RECURSIVE CostedSpans(_)
CostedSpans(sp) ==
    IF sp = <<>> THEN 0
    ELSE (IF sp[1].cost_usd # Unset THEN 1 ELSE 0) + CostedSpans(Tail(sp))

\* C39: when every call of the run is over (admitted, rejected, failed, or refused
\* at the commit by the turn limit), the number of spans carrying a cost is
\* turn_count and the total cost of the trace is the sum of cost_usd over the call
\* records.
C39_TrailAgreesWithLedger ==
    (\A t \in Threads : ic[t].pc \in {"idle", "done"} /\ tk[t].pc = "idle") =>
        /\ CostedSpans(spans) = turn_count
        /\ total_cost(spans) = SumCost(calls)
\* C40: whatever the interleaving of the activations and deactivations of the
\* interceptors of the process, once each of them has been deactivated (every run
\* is torn down, none is active) every hook point holds the callable it held
\* before the first activation, the library's own function.
C40_HooksRestoredAfterAll ==
    (/\ runs_started > 0
     /\ \A t \in Runs : run[t].pc \in {"idle", "not_entered", "torn_down"}
     /\ \A t \in Runs : ~interceptor[t]._active) =>
        \A h \in present : hook[h] = LibraryFunction
====
